---- MODULE Spec2Model ----
(***************************************************************************)
(* A model of the GitMCP merge-review servers: the call-tool dispatcher,   *)
(* the three tool handlers, the git gateway (GitUtils and its inline       *)
(* copies) and the diff parser, together with the environment they talk to *)
(* (the file system, /bin/sh and git).                                     *)
(*                                                                         *)
(* Text.  A JavaScript string is a sequence of lexemes.  A lexeme is one   *)
(* character where the code looks at characters ("+", "-", a digit, " ",   *)
(* "\t", "\n", ";") and otherwise an indivisible chunk of ordinary         *)
(* characters ("main", "a.txt", "Git error: ").  Concatenation and         *)
(* template literals are \o.                                               *)
(*                                                                         *)
(* Numbers.  A JavaScript number is [nan, v]: an integer v, or NaN.        *)
(***************************************************************************)
EXTENDS Integers, Sequences, FiniteSets, TLC

\* ------------------------------------------------------------------ bounds
\* How many call-tool requests one run of the server receives.
MaxCalls == 2

\* ------------------------------------------------------------------ state
\* variant: the build that runs.  repo: the repository at /repo.  calls: the
\* call-tool requests, each with
\*   pc       "new" (not sent), "queued" (delivered, its handler not yet run), "exec"
\*            (its handler is blocked in execSync), "await" (its tool handler has
\*            settled; the call-tool handler waits at `return await`), "done"
\*   at, loc  the execSync call site the handler is blocked at, and its locals
\*   cmds     the command lines the call has handed to execSync, in order
\*   outs     what execSync answered to each of them, in order
\*   settled  how the tool handler ended;  raised: the error thrown in the call
\*   out      what the caller got
\*   before, after   the repository when the handler started and when it settled
VARIABLES variant, repo, calls

vars == <<variant, repo, calls>>

Calls == 1..MaxCalls

\* ------------------------------------------------------- JavaScript values
NaN == [nan |-> TRUE, v |-> 0]

Num(n) == [nan |-> FALSE, v |-> n]

\* a + b on numbers
JsAdd(a, b) == IF a.nan \/ b.nan THEN NaN ELSE Num(a.v + b.v)

\* x > 0
JsPositive(x) == ~x.nan /\ x.v > 0

\* x === 0
JsIsZero(x) == ~x.nan /\ x.v = 0

\* parseInt(...) with the `|| 0` left out: NaN stays NaN
OrZeroNoDefault(x) == x

\* x || 0 on a number: NaN and 0 are falsy
OrZero(x) == IF x.nan \/ x.v = 0 THEN Num(0) ELSE x

Undefined == [t |-> "undefined", s |-> <<>>]

Str(s) == [t |-> "string", s |-> s]

\* args.k of a destructured arguments object
Prop(args, k) == IF k \in DOMAIN args THEN Str(args[k]) ELSE Undefined

\* `${x}` of a string or undefined
Template(x) == IF x.t = "undefined" THEN <<"undefined">> ELSE x.s

\* a test that only asks whether the value is a string
TruthyAnyString(x) == x.t = "string"

\* truthiness of a string or undefined, as || tests it
Truthy(x) == x.t = "string" /\ x.s # <<>>

\* { k = dflt } in a destructuring pattern: the default replaces undefined only
WithDefault(x, dflt) == IF x.t = "undefined" THEN Str(dflt) ELSE x

Digits == <<"0", "1", "2", "3", "4", "5", "6", "7", "8", "9">>

IsDigit(ch) == \E i \in 1..Len(Digits) : Digits[i] = ch

DigitValue(ch) == (CHOOSE i \in 1..Len(Digits) : Digits[i] = ch) - 1

IsSpace(ch) == ch \in {" ", "\t", "\n"}

RECURSIVE DropSpaces(_)
DropSpaces(s) ==
  IF s # <<>> /\ IsSpace(Head(s)) THEN DropSpaces(Tail(s)) ELSE s

RECURSIVE DropSpacesEnd(_)
DropSpacesEnd(s) ==
  IF s # <<>> /\ IsSpace(s[Len(s)]) THEN DropSpacesEnd(SubSeq(s, 1, Len(s) - 1)) ELSE s

\* String.prototype.trim
Trim(s) == DropSpacesEnd(DropSpaces(s))

RECURSIVE DigitRun(_, _, _)
\* the value of the longest run of digits s starts with; seen = FALSE until one is read
DigitRun(s, acc, seen) ==
  IF s # <<>> /\ IsDigit(Head(s))
  THEN DigitRun(Tail(s), 10 * acc + DigitValue(Head(s)), TRUE)
  ELSE IF seen THEN Num(acc) ELSE NaN

\* parseInt(s): leading white space, an optional sign, then digits; NaN without digits
parseInt(s) ==
  LET t == DropSpaces(s)
      neg == t # <<>> /\ Head(t) = "-"
      u == IF t # <<>> /\ Head(t) \in {"-", "+"} THEN Tail(t) ELSE t
      n == DigitRun(u, 0, FALSE)
  IN  IF n.nan THEN NaN ELSE Num(IF neg THEN 0 - n.v ELSE n.v)

RECURSIVE Decimal(_)
Decimal(n) == IF n < 10 THEN <<Digits[n + 1]>> ELSE Decimal(n \div 10) \o <<Digits[(n % 10) + 1]>>

\* `${n}` of a number
NumText(x) ==
  IF x.nan THEN <<"NaN">>
  ELSE IF x.v < 0 THEN <<"-">> \o Decimal(0 - x.v) ELSE Decimal(x.v)

\* where sep occurs in s, in order
CutsOf(s, sep) == SelectSeq([i \in 1..Len(s) |-> i], LAMBDA i : s[i] = sep)

\* s.split(sep): the pieces of s between occurrences of sep; "" splits into [""]
Split(s, sep) ==
  LET cuts == CutsOf(s, sep)
  IN  [k \in 1..(Len(cuts) + 1) |->
         SubSeq(s, IF k = 1 THEN 1 ELSE cuts[k - 1] + 1,
                   IF k > Len(cuts) THEN Len(s) ELSE cuts[k] - 1)]

\* s.startsWith(p)
StartsWith(s, p) == Len(s) >= Len(p) /\ SubSeq(s, 1, Len(p)) = p

\* the whole of s, its first character kept
SubstringWhole(s) == s

\* s.substring(1)
Substring1(s) == IF s = <<>> THEN <<>> ELSE Tail(s)

\* a.slice(0, n)
Slice0(a, n) == SubSeq(a, 1, IF Len(a) < n THEN Len(a) ELSE n)

RECURSIVE Flatten(_)
\* the texts of ss one after the other
Flatten(ss) ==
  IF ss = <<>> THEN <<>>
  ELSE IF Len(ss) = 1 THEN ss[1]
  ELSE Flatten(SubSeq(ss, 1, Len(ss) \div 2)) \o Flatten(SubSeq(ss, Len(ss) \div 2 + 1, Len(ss)))

Range(f) == {f[x] : x \in DOMAIN f}

\* ------------------------------------------------ environment: file system
\* What fs.existsSync and the subprocess's working directory find at a path: a git
\* work tree, a directory that is no repository, a regular file, or nothing.
FsKind(path) ==
  IF path.t = "undefined" THEN "missing"
  ELSE CASE path.s = <<"/repo">> -> "repo"
         [] path.s = <<"/plain">> -> "dir"
         [] path.s = <<"/file">> -> "file"
         [] OTHER -> "missing"

\* the path check left out: every path passes
existsSyncAlways(path) == TRUE

\* fs.existsSync(repoPath): true of anything that exists, a regular file included
existsSync(path) == FsKind(path) # "missing"

\* --------------------------------------------- environment: the repository
\* The commit graph: c1 and c2 are two children of the root c0, c3 is a child of c1.
Commits == {"c0", "c1", "c2", "c3"}

Ancestors(c) ==
  CASE c = "c0" -> {"c0"}
    [] c = "c3" -> {"c0", "c1", "c3"}
    [] OTHER -> {"c0", c}

Files == <<"a.txt", "b.bin">>

\* the length of the long a.txt: more lines than a response quotes of a raw diff
LongFileLines == 105

IsBinary(f) == f = "b.bin"

\* The lines of file f in the tree of commit c.  c1 replaces line y of a.txt by the
\* two lines p and q; c2 appends the line "++i" to a.txt and changes b.bin; c3
\* rewrites a.txt as the lines n1, n2, ... of a file longer than any of the caps.
Content(c, f) ==
  CASE f = "a.txt" /\ c = "c0" -> << <<"x">>, <<"y">> >>
    [] f = "a.txt" /\ c = "c1" -> << <<"x">>, <<"p">>, <<"q">> >>
    [] f = "a.txt" /\ c = "c2" -> << <<"x">>, <<"y">>, <<"+", "+", "i">> >>
    [] f = "a.txt" /\ c = "c3" -> [i \in 1..LongFileLines |-> <<"n">> \o Decimal(i)]
    [] f = "b.bin" /\ c = "c2" -> << <<"blob2">> >>
    [] OTHER -> << <<"blob1">> >>

BranchNames == {"main", "master", "feature"}

\* A repository: its branch heads (tip), the checked-out branch (head, empty when
\* HEAD is detached) and the commit HEAD is at.
Repo(tip, head, headAt) == [tip |-> tip, head |-> head, headAt |-> headAt]

InitialRepos ==
  { Repo([b \in {"main", "feature"} |-> IF b = "main" THEN "c0" ELSE "c1"], <<"feature">>, "c1"),
    Repo([b \in {"main", "feature"} |-> IF b = "main" THEN "c1" ELSE "c0"], <<"feature">>, "c0"),
    Repo([b \in BranchNames |-> CASE b = "main" -> "c1" [] b = "master" -> "c0" [] OTHER -> "c2"],
         <<"feature">>, "c2"),
    Repo([b \in {"master", "feature"} |-> "c1"], <<"feature">>, "c1"),
    Repo([b \in {"main", "feature"} |-> IF b = "main" THEN "c0" ELSE "c1"], <<>>, "c1"),
    Repo([b \in {"feature"} |-> "c1"], <<"feature">>, "c1") }

\* ------------------------------------------------------ environment: git
NoCommit == "none"

\* git's reading of a revision name: a branch, HEAD, or (an empty side of A..B) HEAD
Resolve(r, name) ==
  IF name = <<>> \/ name = <<"HEAD">> THEN r.headAt
  ELSE IF Len(name) = 1 /\ name[1] \in DOMAIN r.tip THEN r.tip[name[1]]
  ELSE NoCommit

ChangedFiles(a, b) == SelectSeq(Files, LAMBDA f : Content(a, f) # Content(b, f))

AddedLines(a, b, f) == SelectSeq(Content(b, f), LAMBDA l : l \notin Range(Content(a, f)))

RemovedLines(a, b, f) == SelectSeq(Content(a, f), LAMBDA l : l \notin Range(Content(b, f)))

KeptLines(a, b, f) == SelectSeq(Content(a, f), LAMBDA l : l \in Range(Content(b, f)))

\* each line of ls behind the marker, ended by a line feed
Marked(marker, ls) == Flatten([i \in 1..Len(ls) |-> <<marker>> \o ls[i] \o <<"\n">>])

\* git diff --name-only a b: the paths whose blobs differ between the two trees
NameOnlyText(a, b) ==
  LET fs == ChangedFiles(a, b)
  IN  Flatten([i \in 1..Len(fs) |-> <<fs[i], "\n">>])

\* git diff --numstat a b: added TAB deleted TAB path, "-" for a binary file
NumstatText(a, b) ==
  LET fs == ChangedFiles(a, b)
      line(f) == IF IsBinary(f) THEN <<"-", "\t", "-", "\t", f, "\n">>
                 ELSE Decimal(Len(AddedLines(a, b, f))) \o <<"\t">>
                      \o Decimal(Len(RemovedLines(a, b, f))) \o <<"\t", f, "\n">>
  IN  Flatten([i \in 1..Len(fs) |-> line(fs[i])])

\* git rev-list --count a..b: the commits reachable from b and not from a
CountText(a, b) == Decimal(Cardinality(Ancestors(b) \ Ancestors(a))) \o <<"\n">>

\* git diff a b -- f: empty when f is the same in both trees (or no path of them)
DiffText(a, b, f) ==
  IF ~(\E i \in 1..Len(Files) : Files[i] = f) \/ Content(a, f) = Content(b, f) THEN <<>>
  ELSE IF IsBinary(f) THEN <<"diff --git a/", f, " b/", f, "\n", "Binary files differ", "\n">>
  ELSE <<"diff --git a/", f, " b/", f, "\n">>
       \o <<"-", "-", "-", " a/", f, "\n">>
       \o <<"+", "+", "+", " b/", f, "\n">>
       \o <<"@@ @@", "\n">>
       \o Marked(" ", KeptLines(a, b, f))
       \o Marked("-", RemovedLines(a, b, f))
       \o Marked("+", AddedLines(a, b, f))

GitFails(r) == [ok |-> FALSE, out |-> <<>>, repo |-> r]

GitPrints(r, text) == [ok |-> TRUE, out |-> text, repo |-> r]

\* what a query over the commits a, b prints; f is the file of a file diff
RangeText(query, a, b, f) ==
  CASE query = "git diff --name-only " -> NameOnlyText(a, b)
    [] query = "git diff --numstat " -> NumstatText(a, b)
    [] query = "git rev-list --count " -> CountText(a, b)
    [] OTHER -> DiffText(a, b, f)

\* a query over the range A..B that follows the command's first lexeme
RangeQuery(r, query, range, f) ==
  LET sides == Split(range, "..")
      a == IF Len(sides) = 2 THEN Resolve(r, sides[1]) ELSE NoCommit
      b == IF Len(sides) = 2 THEN Resolve(r, sides[2]) ELSE NoCommit
  IN  IF a = NoCommit \/ b = NoCommit THEN GitFails(r)
      ELSE GitPrints(r, RangeText(query, a, b, f))

\* git branch -D b: deletes the branch, unless it is missing or checked out
DeleteBranch(r, b) ==
  IF b \notin DOMAIN r.tip \/ r.head = <<b>> THEN GitFails(r)
  ELSE [ok |-> TRUE, out |-> <<"Deleted branch ", b, "\n">>,
        repo |-> [r EXCEPT !.tip = [x \in (DOMAIN r.tip) \ {b} |-> r.tip[x]]]]

\* One simple command, as git carries it out in repository r: what it prints, whether
\* it exits 0, and the repository it leaves.
GitRun(seg, r) ==
  IF seg = <<>> THEN GitPrints(r, <<>>)
  ELSE CASE seg = <<"git branch --show-current">> ->
              GitPrints(r, IF r.head = <<>> THEN <<>> ELSE r.head \o <<"\n">>)
         [] seg = <<"git show-ref --verify refs/heads/main">> ->
              IF "main" \in DOMAIN r.tip
              THEN GitPrints(r, <<r.tip["main"], " ", "refs/heads/main", "\n">>)
              ELSE GitFails(r)
         [] seg = <<"git show-ref --verify refs/heads/master">> ->
              IF "master" \in DOMAIN r.tip
              THEN GitPrints(r, <<r.tip["master"], " ", "refs/heads/master", "\n">>)
              ELSE GitFails(r)
         [] Head(seg) \in {"git diff --name-only ", "git diff --numstat ",
                           "git rev-list --count "} ->
              RangeQuery(r, Head(seg), Tail(seg), "")
         [] Head(seg) = "git diff " ->
              LET parts == Split(Tail(seg), " -- ")
                  f == IF Len(parts) = 2 /\ Len(parts[2]) = 3 THEN parts[2][2] ELSE ""
              IN  RangeQuery(r, Head(seg), parts[1], f)
         [] Head(seg) = "git branch -D " /\ Len(seg) >= 2 -> DeleteBranch(r, seg[2])
         [] OTHER -> GitFails(r)

\* ------------------------------------------------------ environment: /bin/sh
RECURSIVE RunList(_, _, _)
\* The shell runs the simple commands of a list one after the other; the list's exit
\* status is that of the last one.
RunList(segs, r, out) ==
  LET res == GitRun(Head(segs), r)
  IN  IF Len(segs) = 1 THEN [ok |-> res.ok, out |-> out \o res.out, repo |-> res.repo]
      ELSE RunList(Tail(segs), res.repo, out \o res.out)

\* The simple commands the shell finds in a command line: ";" separates them.
ShellCommands(cmd) == Split(cmd, ";")

\* child_process.execSync(cmd, {cwd}): the command line goes to /bin/sh in directory
\* cwd.  ok = the shell was spawned and exited 0; msg is the Error's message otherwise.
execSync(cmd, cwd, r) ==
  IF FsKind(cwd) = "missing"
  THEN [ok |-> FALSE, out |-> <<>>, msg |-> <<"spawnSync /bin/sh ENOENT">>, repo |-> r]
  ELSE IF FsKind(cwd) = "file"
  THEN [ok |-> FALSE, out |-> <<>>, msg |-> <<"spawnSync /bin/sh ENOTDIR">>, repo |-> r]
  ELSE IF FsKind(cwd) = "dir"
  THEN [ok |-> FALSE, out |-> <<>>, msg |-> <<"Command failed: ">> \o cmd, repo |-> r]
  ELSE LET res == RunList(ShellCommands(cmd), r, <<>>)
       IN  [ok |-> res.ok, out |-> res.out,
            msg |-> IF res.ok THEN <<>> ELSE <<"Command failed: ">> \o cmd,
            repo |-> res.repo]

\* ------------------------------------------------------ the build variants
\* GitUtils: src/src/index.ts 673-911 with src/src/gitUtils.ts (three tools).
\* Inline:   src/src/index.ts 1-384 (three tools, the gateway as private methods).
\* TwoTool:  src/src/index.ts 385-672 (show_merge_diff and quick_merge_summary).
\* FileDiff: src/build/index.js 317-461 (SimpleFileDiffMCP, show_file_diff alone).
Variants == {"GitUtils", "Inline", "TwoTool", "FileDiff"}

\* a catalog that advertises the three tools in every build
CatalogOfThree(v) == <<"show_merge_diff", "quick_merge_summary", "show_file_diff">>

\* The tools/list response of a variant, in order.
Catalog(v) ==
  CASE v \in {"GitUtils", "Inline"} -> <<"show_merge_diff", "quick_merge_summary", "show_file_diff">>
    [] v = "TwoTool" -> <<"show_merge_diff", "quick_merge_summary">>
    [] OTHER -> <<"show_file_diff">>

\* TwoTool and FileDiff word their messages in Russian (transliterated here).
Say(v, en, ru) == IF v \in {"TwoTool", "FileDiff"} THEN ru ELSE en

\* ----------------------------------------------------------------- errors
JsError(msg) == [cls |-> "Error", code |-> "none", message |-> msg]

\* const { repoPath, ... } = args with args undefined
DestructureError == [cls |-> "TypeError", code |-> "none",
                      message |-> <<"Cannot destructure property 'repoPath' of 'args' as it is undefined.">>]

\* new McpError(code, msg)
McpError(code, msg) == [cls |-> "McpError", code |-> code, message |-> msg]

\* ------------------------------------------- how far a handler has come
\* A handler runs until it blocks in execSync (Exec: the command, the label `at` of
\* the call site and the locals alive across it), returns or throws.
Exec(at, cmd, loc) == [k |-> "exec", at |-> at, cmd |-> cmd, loc |-> loc]

Return(val) == [k |-> "return", val |-> val]

Throw(err) == [k |-> "throw", err |-> err]

\* ---------------------------------------------------------- the git gateway
\* executeGit's catch: throw new Error(`Git error: ${error.message}`)
GitError(v, res) == JsError(<<Say(v, "Git error: ", "Git oshibka: ")>> \o res.msg)

\* executeGit's return value: the output, trimmed (SimpleFileDiffMCP does not trim)
GitOutput(v, res) == IF v = "FileDiff" THEN res.out ELSE Trim(res.out)

CmdCurrentBranch == <<"git branch --show-current">>

CmdShowRef(b) == <<IF b = "main" THEN "git show-ref --verify refs/heads/main"
                   ELSE "git show-ref --verify refs/heads/master">>

CmdNameOnly(from, to) == <<"git diff --name-only ">> \o from \o <<"..">> \o to

CmdNumstat(from, to) == <<"git diff --numstat ">> \o from \o <<"..">> \o to

CmdCount(from, to) == <<"git rev-list --count ">> \o from \o <<"..">> \o to

CmdFileDiff(from, to, filename) ==
  <<"git diff ">> \o from \o <<"..">> \o to \o <<" -- ", "\"">> \o filename \o <<"\"">>

\* getMainBranch: the branch whose ref is probed, and the name returned when the
\* probe fails.  GitUtils probes master; the inline copies probe main.
\* every build probing main
ProbedBranchMain(v) == "main"

ProbedBranch(v) == IF v = "GitUtils" THEN "master" ELSE "main"

FallbackBranch(v) == IF v = "GitUtils" THEN "main" ELSE "master"

\* getMainBranch, given how its probe ended: it catches every failure of the probe
getMainBranch(v, res) == IF res.ok THEN <<ProbedBranch(v)>> ELSE <<FallbackBranch(v)>>

\* ---- getMergeInfo
\* filesOutput ? filesOutput.split('\n').filter(f => f.trim()) : []
ParseFilesChanged(filesOutput) ==
  IF filesOutput # <<>>
  THEN SelectSeq(Split(filesOutput, "\n"), LAMBDA f : Trim(f) # <<>>)
  ELSE <<>>

RECURSIVE SumNumstatWholeLines(_, _, _)
\* a sum that drops a whole line when one of its two tokens is no number
SumNumstatWholeLines(lines, insertions, deletions) ==
  IF lines = <<>> THEN [insertions |-> insertions, deletions |-> deletions]
  ELSE LET parts == Split(Head(lines), "\t")
       IN  IF Len(parts) >= 2 /\ ~parseInt(parts[1]).nan /\ ~parseInt(parts[2]).nan
           THEN SumNumstatWholeLines(Tail(lines), JsAdd(insertions, parseInt(parts[1])),
                                     JsAdd(deletions, parseInt(parts[2])))
           ELSE SumNumstatWholeLines(Tail(lines), insertions, deletions)

RECURSIVE SumNumstat(_, _, _)
\* statsOutput.split('\n').forEach(line => ...) over the lines left
SumNumstat(lines, insertions, deletions) ==
  IF lines = <<>> THEN [insertions |-> insertions, deletions |-> deletions]
  ELSE LET parts == Split(Head(lines), "\t")
       IN  IF Len(parts) >= 2
           THEN SumNumstat(Tail(lines),
                           JsAdd(insertions, OrZero(parseInt(parts[1]))),
                           JsAdd(deletions, OrZero(parseInt(parts[2]))))
           ELSE SumNumstat(Tail(lines), insertions, deletions)

\* The totals kept across calls instead of per call: the sums start from the
\* insertions and deletions of a show_merge_diff call handled earlier.
CarriedStats ==
  LET earlier == {d \in Calls : /\ calls[d].pc = "done"
                                /\ calls[d].req.name = "show_merge_diff"
                                /\ calls[d].out.ok}
  IN  IF earlier = {} THEN [insertions |-> Num(0), deletions |-> Num(0)]
      ELSE LET info == calls[CHOOSE d \in earlier : TRUE].out.result.content[1].text.json
           IN  [insertions |-> info.insertions, deletions |-> info.deletions]

ParseNumstatCarried(statsOutput) ==
  IF statsOutput # <<>>
  THEN SumNumstat(Split(statsOutput, "\n"), CarriedStats.insertions, CarriedStats.deletions)
  ELSE CarriedStats

\* let insertions = 0; let deletions = 0; if (statsOutput) { ... }
ParseNumstat(statsOutput) ==
  IF statsOutput # <<>> THEN SumNumstat(Split(statsOutput, "\n"), Num(0), Num(0))
  ELSE [insertions |-> Num(0), deletions |-> Num(0)]

\* parseInt(commitsOutput) || 0
ParseCount(output) == OrZero(parseInt(output))

\* a summary that takes an empty file list for an empty range
MergeSummaryByFiles(v, commits, filesChanged, insertions, deletions) ==
  IF filesChanged = <<>>
  THEN <<Say(v, "No new commits for merge", "Net novyh kommitov dlya merge")>>
  ELSE NumText(commits) \o <<Say(v, " commits, ", " kommitov, ")>>
       \o NumText(Num(Len(filesChanged))) \o <<Say(v, " files, +", " fajlov, +")>>
       \o NumText(insertions) \o <<"/-">> \o NumText(deletions)
       \o <<Say(v, " lines", " strok")>>

MergeSummary(v, commits, filesChanged, insertions, deletions) ==
  IF JsIsZero(commits)
  THEN <<Say(v, "No new commits for merge", "Net novyh kommitov dlya merge")>>
  ELSE NumText(commits) \o <<Say(v, " commits, ", " kommitov, ")>>
       \o NumText(Num(Len(filesChanged))) \o <<Say(v, " files, +", " fajlov, +")>>
       \o NumText(insertions) \o <<"/-">> \o NumText(deletions)
       \o <<Say(v, " lines", " strok")>>

\* a record with the two line counts in each other's place
MergeInfoSwapped(v, from, to, filesChanged, stats, commits) ==
  [sourceBranch |-> from, targetBranch |-> to, filesChanged |-> filesChanged,
   insertions |-> stats.deletions, deletions |-> stats.insertions, commits |-> commits,
   summary |-> MergeSummary(v, commits, filesChanged, stats.insertions, stats.deletions)]

MergeInfo(v, from, to, filesChanged, stats, commits) ==
  [sourceBranch |-> from, targetBranch |-> to, filesChanged |-> filesChanged,
   insertions |-> stats.insertions, deletions |-> stats.deletions, commits |-> commits,
   summary |-> MergeSummary(v, commits, filesChanged, stats.insertions, stats.deletions)]

\* getMergeInfo from its first query on
getMergeInfo(v, from, to) == Exec("names", CmdNameOnly(from, to), [from |-> from, to |-> to])

\* a getMergeInfo that starts a failed query again
getMergeInfoRetrying(v, at, loc, res) ==
  CASE ~res.ok /\ at = "names" -> Exec(at, CmdNameOnly(loc.from, loc.to), loc)
    [] ~res.ok /\ at = "numstat" -> Exec(at, CmdNumstat(loc.from, loc.to), loc)
    [] ~res.ok /\ at = "count" -> Exec(at, CmdCount(loc.from, loc.to), loc)
    [] res.ok /\ at = "names" ->
         Exec("numstat", CmdNumstat(loc.from, loc.to),
              [from |-> loc.from, to |-> loc.to,
               filesChanged |-> ParseFilesChanged(GitOutput(v, res))])
    [] res.ok /\ at = "numstat" ->
         Exec("count", CmdCount(loc.from, loc.to),
              [from |-> loc.from, to |-> loc.to, filesChanged |-> loc.filesChanged,
               stats |-> ParseNumstat(GitOutput(v, res))])
    [] OTHER ->
         Return(MergeInfo(v, loc.from, loc.to, loc.filesChanged, loc.stats,
                          ParseCount(GitOutput(v, res))))

\* getMergeInfo after the query at `at` ended in res
getMergeInfoNext(v, at, loc, res) ==
  IF ~res.ok THEN Throw(GitError(v, res))
  ELSE CASE at = "names" ->
              Exec("numstat", CmdNumstat(loc.from, loc.to),
                   [from |-> loc.from, to |-> loc.to,
                    filesChanged |-> ParseFilesChanged(GitOutput(v, res))])
         [] at = "numstat" ->
              Exec("count", CmdCount(loc.from, loc.to),
                   [from |-> loc.from, to |-> loc.to, filesChanged |-> loc.filesChanged,
                    stats |-> ParseNumstat(GitOutput(v, res))])
         [] OTHER ->
              Return(MergeInfo(v, loc.from, loc.to, loc.filesChanged, loc.stats,
                               ParseCount(GitOutput(v, res))))

\* ---- getQuickStats
\* a message that names the ahead count in both places
QuickStatsMessageAheadTwice(v, aheadCount, behindCount) ==
  IF JsIsZero(aheadCount) /\ JsIsZero(behindCount)
  THEN <<Say(v, "Branches are synchronized", "Vetki sinhronizirovany")>>
  ELSE <<Say(v, "Ahead by ", "Operezhaet na ")>> \o NumText(aheadCount)
       \o <<Say(v, ", behind by ", ", otstaet na ")>> \o NumText(aheadCount)
       \o <<Say(v, " commits", " kommitov")>>

QuickStatsMessage(v, aheadCount, behindCount) ==
  IF JsIsZero(aheadCount) /\ JsIsZero(behindCount)
  THEN <<Say(v, "Branches are synchronized", "Vetki sinhronizirovany")>>
  ELSE IF JsPositive(aheadCount) /\ JsIsZero(behindCount)
  THEN <<Say(v, "Ahead by ", "Operezhaet na ")>> \o NumText(aheadCount)
       \o <<Say(v, " commits", " kommitov")>>
  ELSE IF JsIsZero(aheadCount) /\ JsPositive(behindCount)
  THEN <<Say(v, "Behind by ", "Otstaet na ")>> \o NumText(behindCount)
       \o <<Say(v, " commits", " kommitov")>>
  ELSE <<Say(v, "Ahead by ", "Operezhaet na ")>> \o NumText(aheadCount)
       \o <<Say(v, ", behind by ", ", otstaet na ")>> \o NumText(behindCount)
       \o <<Say(v, " commits", " kommitov")>>

\* getQuickStats with needsMerge taken from the ahead count alone
QuickStatsAheadOnly(v, ahead, behind) ==
  LET aheadCount == ParseCount(ahead)
      behindCount == ParseCount(behind)
  IN  [message |-> QuickStatsMessage(v, aheadCount, behindCount),
       aheadBy |-> aheadCount, behindBy |-> behindCount,
       needsMerge |-> JsPositive(aheadCount)]

QuickStats(v, ahead, behind) ==
  LET aheadCount == ParseCount(ahead)
      behindCount == ParseCount(behind)
  IN  [message |-> QuickStatsMessage(v, aheadCount, behindCount),
       aheadBy |-> aheadCount, behindBy |-> behindCount,
       needsMerge |-> JsPositive(aheadCount) \/ JsPositive(behindCount)]

QuickStatsSame(v) ==
  [message |-> <<Say(v, "Already on the base branch", "Uzhe na bazovoj vetke")>>,
   needsMerge |-> FALSE]

\* a failure answered as if nothing were to merge
QuickStatsFailedAsSame(v, err) ==
  [message |-> <<Say(v, "Failed to determine status", "Ne udalos' opredelit' status")>>,
   error |-> err.message, needsMerge |-> FALSE]

QuickStatsFailed(v, err) ==
  [message |-> <<Say(v, "Failed to determine status", "Ne udalos' opredelit' status")>>,
   error |-> err.message]

\* { ...a, ...b }
Spread(a, b) == [k \in (DOMAIN a) \cup (DOMAIN b) |-> IF k \in DOMAIN b THEN b[k] ELSE a[k]]

\* ------------------------------------------------------------ diff parser
\* How many added (removed) lines a show_file_diff response lists, and how many lines
\* of the raw diff it quotes.
AdditionsCap == 50

FileDiffCap == 20

RawDiffCap == 100

\* the body of the loop for one line; acc holds the two lists and the two counters
ClassifyLine(line, acc) ==
  IF StartsWith(line, <<"+">>) /\ ~StartsWith(line, <<"+", "+", "+">>)
  THEN [acc EXCEPT !.additions = Append(@, Substring1(line)),
                   !.addedLines = JsAdd(@, Num(1))]
  ELSE IF StartsWith(line, <<"-">>) /\ ~StartsWith(line, <<"-", "-", "-">>)
  THEN [acc EXCEPT !.deletions = Append(@, Substring1(line)),
                   !.deletedLines = JsAdd(@, Num(1))]
  ELSE acc

\* what the loop has after the lines that gave a, followed by lines that give b when
\* started from nothing: it only ever appends to the lists and adds to the counters
Joined(a, b) ==
  [additions |-> a.additions \o b.additions, deletions |-> a.deletions \o b.deletions,
   addedLines |-> JsAdd(a.addedLines, b.addedLines),
   deletedLines |-> JsAdd(a.deletedLines, b.deletedLines)]

RECURSIVE ClassifyLines(_, _)
\* for (const line of lines) { ... }: the lines in order, the first half of them and
\* then the rest
ClassifyLines(lines, acc) ==
  IF lines = <<>> THEN acc
  ELSE IF Len(lines) = 1 THEN ClassifyLine(lines[1], acc)
  ELSE Joined(ClassifyLines(SubSeq(lines, 1, Len(lines) \div 2), acc),
              ClassifyLines(SubSeq(lines, Len(lines) \div 2 + 1, Len(lines)),
                            [additions |-> <<>>, deletions |-> <<>>,
                             addedLines |-> Num(0), deletedLines |-> Num(0)]))

ScanDiff(diffOutput) ==
  ClassifyLines(Split(diffOutput, "\n"),
                [additions |-> <<>>, deletions |-> <<>>,
                 addedLines |-> Num(0), deletedLines |-> Num(0)])

DiffSummary(v, added, deleted) ==
  <<"+">> \o NumText(added) \o <<Say(v, " lines, -", " strok, -")>> \o NumText(deleted)
  \o <<Say(v, " lines", " strok")>>

\* a parser whose summary counts the lines it lists
parseFileDiffListed(v, diffOutput) ==
  LET acc == ScanDiff(diffOutput)
      hasChanges == JsPositive(acc.addedLines) \/ JsPositive(acc.deletedLines)
  IN  [hasChanges |-> hasChanges,
       additions |-> Slice0(acc.additions, AdditionsCap),
       deletions |-> Slice0(acc.deletions, AdditionsCap),
       summary |-> IF hasChanges
                   THEN DiffSummary(v, Num(Len(Slice0(acc.additions, AdditionsCap))),
                                       Num(Len(Slice0(acc.deletions, AdditionsCap))))
                   ELSE <<Say(v, "No changes in the file", "Net izmenenij v fajle")>>]

\* parseFileDiff of the three-tool servers
parseFileDiff(v, diffOutput) ==
  LET acc == ScanDiff(diffOutput)
      hasChanges == JsPositive(acc.addedLines) \/ JsPositive(acc.deletedLines)
  IN  [hasChanges |-> hasChanges,
       additions |-> Slice0(acc.additions, AdditionsCap),
       deletions |-> Slice0(acc.deletions, AdditionsCap),
       summary |-> IF hasChanges THEN DiffSummary(v, acc.addedLines, acc.deletedLines)
                   ELSE <<Say(v, "No changes in the file", "Net izmenenij v fajle")>>]

\* parseChanges of SimpleFileDiffMCP
parseChanges(v, diffOutput) ==
  LET acc == ScanDiff(diffOutput)
  IN  [summary |-> DiffSummary(v, acc.addedLines, acc.deletedLines),
       added |-> Slice0(acc.additions, FileDiffCap),
       removed |-> Slice0(acc.deletions, FileDiffCap),
       totalAdded |-> acc.addedLines, totalRemoved |-> acc.deletedLines]

\* the lines of the diff, none left out
RawDiffWhole(diffOutput) == Split(diffOutput, "\n")

\* diffOutput.split('\n').slice(0, 100)
RawDiff(diffOutput) == Slice0(Split(diffOutput, "\n"), RawDiffCap)

\* ----------------------------------------------------------- tool handlers
\* { content: [{ type: 'text', text: JSON.stringify(value, null, 2) }] }
TextContent(value) == Return([content |-> << [type |-> "text", text |-> [json |-> value]] >>])

RepoNotFound(v, repoPath) ==
  Throw(JsError(<<Say(v, "Repository not found: ", "Repozitorij ne najden: ")>>
                \o Template(repoPath)))

\* fromBranch = 'master', the default SimpleFileDiffMCP.showFileDiff uses, in its place
MergeFromDefaultMaster == <<"master">>

\* fromBranch = 'main' in showMergeDiff's destructuring pattern
MergeFromDefault == <<"main">>

\* showMergeDiff up to its first subprocess
showMergeDiff(v, req) ==
  IF ~req.hasArgs THEN Throw(DestructureError)
  ELSE LET repoPath == Prop(req.args, "repoPath")
           fromBranch == WithDefault(Prop(req.args, "fromBranch"), MergeFromDefault)
           toBranch == Prop(req.args, "toBranch")
       IN  IF ~existsSync(repoPath) THEN RepoNotFound(v, repoPath)
           ELSE IF Truthy(toBranch) THEN getMergeInfo(v, fromBranch.s, toBranch.s)
           ELSE Exec("cur", CmdCurrentBranch, [from |-> fromBranch.s])

\* a showMergeDiff that answers with the part it has when a query of getMergeInfo fails
showMergeDiffNextPartial(v, req, at, loc, res) ==
  IF at = "cur"
  THEN IF ~res.ok THEN Throw(GitError(v, res))
       ELSE getMergeInfo(v, loc.from, GitOutput(v, res))
  ELSE LET next == getMergeInfoNext(v, at, loc, res)
       IN  CASE next.k = "return" -> TextContent(next.val)
             [] next.k = "throw" ->
                  TextContent([sourceBranch |-> loc.from, targetBranch |-> loc.to,
                               summary |-> next.err.message])
             [] OTHER -> next

showMergeDiffNext(v, req, at, loc, res) ==
  IF at = "cur"
  THEN IF ~res.ok THEN Throw(GitError(v, res))
       ELSE getMergeInfo(v, loc.from, GitOutput(v, res))
  ELSE LET next == getMergeInfoNext(v, at, loc, res)
       IN  IF next.k = "return" THEN TextContent(next.val) ELSE next

\* a handler that refuses an empty branch name instead of going on with it
QuickProbeNamed(v, current) ==
  IF current = <<>> THEN Throw(JsError(<<"Cannot determine current branch">>))
  ELSE Exec("probe", CmdShowRef(ProbedBranch(v)), [current |-> current])

\* quickMergeSummary's call of getMainBranch, the current branch known
QuickProbe(v, current) == Exec("probe", CmdShowRef(ProbedBranch(v)), [current |-> current])

quickMergeSummary(v, req) ==
  IF ~req.hasArgs THEN Throw(DestructureError)
  ELSE LET repoPath == Prop(req.args, "repoPath")
           branch == Prop(req.args, "branch")
       IN  IF ~existsSync(repoPath) THEN RepoNotFound(v, repoPath)
           ELSE IF Truthy(branch) THEN QuickProbe(v, branch.s)
           ELSE Exec("cur", CmdCurrentBranch, [current |-> <<>>])

QuickSummary(current, base, stats) ==
  TextContent(Spread([currentBranch |-> current, baseBranch |-> base], stats))

\* a quickMergeSummary whose getQuickStats has no try/catch: a failed count propagates
quickMergeSummaryNextUncaught(v, req, at, loc, res) ==
  CASE at = "cur" ->
         IF ~res.ok THEN Throw(GitError(v, res)) ELSE QuickProbe(v, GitOutput(v, res))
    [] at = "probe" ->
         LET base == getMainBranch(v, res)
         IN  IF base = loc.current THEN QuickSummary(loc.current, base, QuickStatsSame(v))
             ELSE Exec("ahead", CmdCount(base, loc.current),
                       [current |-> loc.current, base |-> base])
    [] at = "ahead" ->
         IF ~res.ok THEN Throw(GitError(v, res))
         ELSE Exec("behind", CmdCount(loc.current, loc.base),
                   [current |-> loc.current, base |-> loc.base, ahead |-> GitOutput(v, res)])
    [] OTHER ->
         IF ~res.ok THEN Throw(GitError(v, res))
         ELSE QuickSummary(loc.current, loc.base, QuickStats(v, loc.ahead, GitOutput(v, res)))

quickMergeSummaryNext(v, req, at, loc, res) ==
  CASE at = "cur" ->
         IF ~res.ok THEN Throw(GitError(v, res)) ELSE QuickProbe(v, GitOutput(v, res))
    [] at = "probe" ->
         LET base == getMainBranch(v, res)
         IN  IF base = loc.current THEN QuickSummary(loc.current, base, QuickStatsSame(v))
             ELSE Exec("ahead", CmdCount(base, loc.current),
                       [current |-> loc.current, base |-> base])
    [] at = "ahead" ->
         IF ~res.ok THEN QuickSummary(loc.current, loc.base, QuickStatsFailed(v, GitError(v, res)))
         ELSE Exec("behind", CmdCount(loc.current, loc.base),
                   [current |-> loc.current, base |-> loc.base, ahead |-> GitOutput(v, res)])
    [] OTHER ->
         IF ~res.ok THEN QuickSummary(loc.current, loc.base, QuickStatsFailed(v, GitError(v, res)))
         ELSE QuickSummary(loc.current, loc.base, QuickStats(v, loc.ahead, GitOutput(v, res)))

\* showFileDiff once the source branch is known
FileDiffTarget(v, req, source) ==
  LET toBranch == Prop(req.args, "toBranch")
      filename == Template(Prop(req.args, "filename"))
  IN  IF Truthy(toBranch)
      THEN Exec("diff", CmdFileDiff(source, toBranch.s, filename),
                [source |-> source, target |-> toBranch.s])
      ELSE Exec("cur", CmdCurrentBranch, [source |-> source])

\* showFileDiff of the three-tool servers
showFileDiff(v, req) ==
  IF ~req.hasArgs THEN Throw(DestructureError)
  ELSE LET repoPath == Prop(req.args, "repoPath")
           fromBranch == Prop(req.args, "fromBranch")
       IN  IF ~existsSync(repoPath) THEN RepoNotFound(v, repoPath)
           ELSE IF Truthy(fromBranch) THEN FileDiffTarget(v, req, fromBranch.s)
           ELSE Exec("probe", CmdShowRef(ProbedBranch(v)), [source |-> <<>>])

showFileDiffNext(v, req, at, loc, res) ==
  LET filename == Prop(req.args, "filename")
  IN  CASE at = "probe" -> FileDiffTarget(v, req, getMainBranch(v, res))
        [] at = "cur" ->
             IF ~res.ok THEN Throw(GitError(v, res))
             ELSE Exec("diff", CmdFileDiff(loc.source, GitOutput(v, res), Template(filename)),
                       [source |-> loc.source, target |-> GitOutput(v, res)])
        [] OTHER ->
             IF ~res.ok
             THEN Throw(JsError(<<Say(v, "Failed to get diff for file ",
                                       "Ne udalos' poluchit' diff dlya fajla ")>>
                                \o Template(filename) \o <<": ">> \o GitError(v, res).message))
             ELSE LET diffOutput == GitOutput(v, res)
                  IN  TextContent(Spread(
                        Spread([filename |-> filename, fromBranch |-> loc.source,
                                toBranch |-> loc.target],
                               parseFileDiff(v, diffOutput)),
                        [rawDiff |-> RawDiff(diffOutput)]))

\* showFileDiff of SimpleFileDiffMCP
simpleShowFileDiff(v, req) ==
  IF ~req.hasArgs THEN Throw(DestructureError)
  ELSE LET repoPath == Prop(req.args, "repoPath")
           fromBranch == WithDefault(Prop(req.args, "fromBranch"), <<"master">>)
           toBranch == WithDefault(Prop(req.args, "toBranch"), <<"HEAD">>)
           filename == Template(Prop(req.args, "filename"))
       IN  IF ~existsSync(repoPath) THEN RepoNotFound(v, repoPath)
           ELSE Exec("diff", CmdFileDiff(fromBranch.s, toBranch.s, filename),
                     [source |-> fromBranch.s, target |-> toBranch.s])

simpleShowFileDiffNext(v, req, at, loc, res) ==
  LET head == [filename |-> Prop(req.args, "filename"), fromBranch |-> loc.source,
               toBranch |-> loc.target]
  IN  IF ~res.ok THEN Throw(GitError(v, res))
      ELSE IF Trim(GitOutput(v, res)) = <<>>
      THEN TextContent(Spread(head, [hasChanges |-> FALSE,
                                     message |-> <<"Net izmenenij v fajle">>]))
      ELSE TextContent(Spread(Spread(head, [hasChanges |-> TRUE]),
                              parseChanges(v, GitOutput(v, res))))

\* ------------------------------------------------------------- dispatcher
\* The names the call-tool handler's switch (if, in SimpleFileDiffMCP) routes.
Routes(v) ==
  CASE v \in {"GitUtils", "Inline"} -> {"show_merge_diff", "quick_merge_summary", "show_file_diff"}
    [] v = "TwoTool" -> {"show_merge_diff", "quick_merge_summary"}
    [] OTHER -> {"show_file_diff"}

\* throw new McpError(ErrorCode.MethodNotFound, `Unknown tool: ${name}`)
UnknownTool(v, name) ==
  McpError("MethodNotFound", <<Say(v, "Unknown tool: ", "Neizvestnyj instrument: "), name>>)

\* Whether the call-tool handler wraps its body in try/catch.
HasCatch(v) == v # "FileDiff"

\* catch (error) { throw new McpError(ErrorCode.InternalError, `Error: ${error.message}`) }
CatchWrap(v, err) ==
  McpError("InternalError", <<Say(v, "Error: ", "Oshibka: ")>> \o err.message)

\* The tool handler the request is routed to, up to its first subprocess.
Enter(v, req) ==
  CASE req.name = "show_merge_diff" -> showMergeDiff(v, req)
    [] req.name = "quick_merge_summary" -> quickMergeSummary(v, req)
    [] v = "FileDiff" -> simpleShowFileDiff(v, req)
    [] OTHER -> showFileDiff(v, req)

\* The same handler after the subprocess at `at` ended in res.
Continue(v, req, at, loc, res) ==
  CASE req.name = "show_merge_diff" -> showMergeDiffNext(v, req, at, loc, res)
    [] req.name = "quick_merge_summary" -> quickMergeSummaryNext(v, req, at, loc, res)
    [] v = "FileDiff" -> simpleShowFileDiffNext(v, req, at, loc, res)
    [] OTHER -> showFileDiffNext(v, req, at, loc, res)

\* What the caller gets once the handler's promise settles.
Failure(err) == [ok |-> FALSE, error |-> err]

Success(val) == [ok |-> TRUE, result |-> val]

\* The outcome of a call whose tool handler settled in st (k = "return" or "throw").
Outcome(v, st) ==
  IF st.k = "return" THEN Success(st.val)
  ELSE IF HasCatch(v) THEN Failure(CatchWrap(v, st.err)) ELSE Failure(st.err)

\* ---------------------------------------------------------------- requests
NoArgs == [k \in {} |-> <<>>]

Request(name, args) == [name |-> name, hasArgs |-> TRUE, args |-> args]

\* a call-tool request without an arguments object
BareRequest(name) == [name |-> name, hasArgs |-> FALSE, args |-> NoArgs]

\* a branch argument that carries a second shell command
Injection == <<"feature", ";", "git branch -D ", "main">>

Opt(key, values) == {NoArgs} \cup {[k \in {key} |-> x] : x \in values}

\* The call-tool requests the model sends to a three-tool server: each tool on the
\* repository with its optional arguments given or left out, on a path that is
\* missing, a regular file or no repository, without an arguments object, and a tool
\* that does not exist.
AllRequests ==
  {Request("show_merge_diff", Spread([repoPath |-> <<"/repo">>], Spread(f, t))) :
     f \in Opt("fromBranch", {<<"master">>}), t \in Opt("toBranch", {<<"feature">>})}
  \cup {Request("show_merge_diff", [repoPath |-> <<"/repo">>, toBranch |-> Injection])}
  \cup {Request("quick_merge_summary", Spread([repoPath |-> <<"/repo">>], b)) :
     b \in Opt("branch", {<<"feature">>, <<"main">>})}
  \cup {Request("show_file_diff", [repoPath |-> <<"/repo">>, filename |-> <<"a.txt">>]),
        Request("show_file_diff", [repoPath |-> <<"/repo">>, filename |-> <<"a.txt">>,
                                   fromBranch |-> <<"main">>, toBranch |-> <<"feature">>])}
  \cup {Request(n, [repoPath |-> <<"/missing">>, filename |-> <<"a.txt">>]) :
     n \in {"show_merge_diff", "quick_merge_summary", "show_file_diff"}}
  \cup {Request("show_merge_diff", [repoPath |-> <<"/file">>]),
        Request("quick_merge_summary", [repoPath |-> <<"/plain">>, branch |-> <<"feature">>]),
        Request("does_not_exist", [repoPath |-> <<"/repo">>]),
        BareRequest("show_file_diff")}

\* The requests sent to the build v: those for the tools it advertises, and the tool
\* that does not exist.
Requests(v) == {req \in AllRequests : req.name \in Range(Catalog(v)) \cup {"does_not_exist"}}

\* ------------------------------------------------------------- call records
None == [k |-> "none"]

NewCall == [pc |-> "new", req |-> None, at |-> "", loc |-> None, cmds |-> <<>>,
            outs |-> <<>>, settled |-> None, raised |-> None, out |-> None,
            before |-> None, after |-> None]

Init ==
  /\ variant \in Variants
  /\ repo \in InitialRepos
  /\ calls = [c \in Calls |-> NewCall]

\* an asynchronous exec in place of execSync: the thread is never blocked
ThreadBusyNever == FALSE

\* execSync is synchronous: while a subprocess runs, the one JavaScript thread is
\* blocked in it and no other handler code runs.
ThreadBusy == \E c \in Calls : calls[c].pc = "exec"

\* a handler whose rejection is dropped: the call of a tool handler that throws is
\* never settled
AdvanceDroppingThrows(call, st, r) ==
  IF st.k = "exec"
  THEN [call EXCEPT !.pc = "exec", !.at = st.at, !.loc = st.loc,
                    !.cmds = Append(@, st.cmd)]
  ELSE IF st.k = "throw"
  THEN [call EXCEPT !.pc = "hung", !.at = "", !.loc = None, !.raised = st.err, !.after = r]
  ELSE [call EXCEPT !.pc = "await", !.at = "", !.loc = None, !.settled = st,
                    !.raised = None, !.after = r]

\* The call record after its handler came to st with the repository at r.
Advance(call, st, r) ==
  IF st.k = "exec"
  THEN [call EXCEPT !.pc = "exec", !.at = st.at, !.loc = st.loc,
                    !.cmds = Append(@, st.cmd)]
  ELSE [call EXCEPT !.pc = "await", !.at = "", !.loc = None, !.settled = st,
                    !.raised = IF st.k = "throw" THEN st.err ELSE None,
                    !.after = r]

\* A request reaches the server.  Requests are numbered in the order they arrive.
Arrive(c) ==
  /\ calls[c].pc = "new"
  /\ \A d \in Calls : d < c => calls[d].pc # "new"
  /\ \E req \in Requests(variant) : calls' = [calls EXCEPT ![c].pc = "queued", ![c].req = req]
  /\ UNCHANGED <<variant, repo>>

\* The call-tool handler runs, for the requests in the order they arrived: an unrouted
\* name throws at once (inside the try, where there is one); a routed one runs its
\* tool handler up to the first subprocess.
Begin(c) ==
  /\ calls[c].pc = "queued"
  /\ \A d \in Calls : d < c => calls[d].pc \notin {"new", "queued"}
  /\ ~ThreadBusy
  /\ LET call == [calls[c] EXCEPT !.before = repo]
         req == call.req
     IN  IF req.name \notin Routes(variant)
         THEN calls' = [calls EXCEPT ![c] =
                [call EXCEPT !.pc = "done", !.after = repo,
                             !.raised = UnknownTool(variant, req.name),
                             !.out = Outcome(variant, Throw(UnknownTool(variant, req.name)))]]
         ELSE calls' = [calls EXCEPT ![c] = Advance(call, Enter(variant, req), repo)]
  /\ UNCHANGED <<variant, repo>>

\* The subprocess of call c ends; the handler goes on to its next subprocess or to
\* its end.
ExecReturn(c) ==
  /\ calls[c].pc = "exec"
  /\ \E res \in {execSync(calls[c].cmds[Len(calls[c].cmds)],
                           Prop(calls[c].req.args, "repoPath"), repo)} :
     \E st \in {Continue(variant, calls[c].req, calls[c].at, calls[c].loc, res)} :
       /\ repo' = res.repo
       /\ calls' = [calls EXCEPT ![c] =
            Advance([calls[c] EXCEPT !.outs = Append(@, [ok |-> res.ok, out |-> res.out,
                                                         msg |-> res.msg])],
                    st, res.repo)]
  /\ UNCHANGED variant

\* `return await` resumes: the result is returned, or the rejection is caught and
\* wrapped (where there is a catch).  Continuations resume in the order in which they
\* were suspended, which is the order in which the handlers ran.
Resume(c) ==
  /\ calls[c].pc = "await"
  /\ \A d \in Calls : d < c => calls[d].pc = "done"
  /\ ~ThreadBusy
  /\ calls' = [calls EXCEPT ![c].pc = "done", ![c].out = Outcome(variant, calls[c].settled),
                            ![c].settled = None]
  /\ UNCHANGED <<variant, repo>>

Next == \E c \in Calls : Arrive(c) \/ Begin(c) \/ ExecReturn(c) \/ Resume(c)

Spec == Init /\ [][Next]_vars

\* ------------------------------------------------ one call, more inputs
\* Repositories with longer histories and the long file: feature two commits ahead of
\* main, and main two commits ahead of (and one behind) feature.
MoreRepos ==
  { Repo([b \in {"main", "feature"} |-> IF b = "main" THEN "c0" ELSE "c3"], <<"feature">>, "c3"),
    Repo([b \in {"main", "feature"} |-> IF b = "main" THEN "c3" ELSE "c2"], <<"feature">>, "c2") }

\* Requests with an empty string for a branch, for the binary file, for the same branch
\* on both sides, with a second command in `branch`, with an empty arguments object,
\* with a branch that reads the same on either side of "..main", without an arguments
\* object, and on a path that is a regular file or no repository.
MoreRequests ==
  { Request("show_merge_diff", [repoPath |-> <<"/repo">>, toBranch |-> <<>>]),
    Request("show_merge_diff", [repoPath |-> <<"/repo">>, fromBranch |-> <<"feature">>,
                                toBranch |-> <<"feature">>]),
    Request("quick_merge_summary", [repoPath |-> <<"/repo">>, branch |-> <<>>]),
    Request("quick_merge_summary", [repoPath |-> <<"/repo">>, branch |-> Injection]),
    Request("quick_merge_summary", NoArgs),
    BareRequest("quick_merge_summary"),
    Request("quick_merge_summary", [repoPath |-> <<"/plain">>, branch |-> <<>>]),
    Request("quick_merge_summary", [repoPath |-> <<"/plain">>]),
    Request("quick_merge_summary", [repoPath |-> <<"/repo">>,
                                    branch |-> <<"main", "..", "main">>]),
    Request("quick_merge_summary", [repoPath |-> <<"/file">>, branch |-> <<"feature">>]),
    Request("quick_merge_summary", [repoPath |-> <<"/file">>]),
    Request("show_file_diff", [repoPath |-> <<"/file">>, filename |-> <<"a.txt">>,
                               fromBranch |-> <<"main">>, toBranch |-> <<"feature">>]),
    Request("show_file_diff", [repoPath |-> <<"/repo">>, filename |-> <<"a.txt">>,
                               fromBranch |-> <<>>, toBranch |-> <<>>]),
    Request("show_file_diff", [repoPath |-> <<"/repo">>, filename |-> <<"b.bin">>,
                               fromBranch |-> <<"main">>, toBranch |-> <<"feature">>]) }

InitSolo ==
  /\ variant \in Variants
  /\ repo \in InitialRepos \cup MoreRepos
  /\ calls = [c \in Calls |-> NewCall]

\* The one request of the run reaches the server.
ArriveSolo ==
  /\ calls[1].pc = "new"
  /\ \E req \in Requests(variant) \cup {r \in MoreRequests : r.name \in Range(Catalog(variant))} :
       calls' = [calls EXCEPT ![1].pc = "queued", ![1].req = req]
  /\ UNCHANGED <<variant, repo>>

NextSolo == ArriveSolo \/ Begin(1) \/ ExecReturn(1) \/ Resume(1)

\* A server that handles a single call, on any of the repositories.
SpecSolo == InitSolo /\ [][NextSolo]_vars

\* ------------------------------------------ one file diff, any diff text
\* The lines a diff text is made of: added and removed lines, the two file headers,
\* lines that only look like headers, context, the notice for a binary file, an empty
\* line and a bare sign.
DiffLineKinds ==
  { <<"+", "foo">>, <<"+", "+", "+", " b/", "a.txt">>, <<"+", "+", "k">>,
    <<"-", "bar">>, <<"-", "-", "-", " a/", "a.txt">>, <<"-", "-", "-", "j">>,
    <<" ", "x">>, <<"Binary files differ">>, <<>>, <<"+">> }

\* how many lines the short diff texts have at most
MaxDiffLines == 3

\* each line ended by a line feed
Lines(ls) == Flatten([i \in 1..Len(ls) |-> ls[i] \o <<"\n">>])

ShortDiffs == {Lines(ls) : ls \in UNION {[1..n -> DiffLineKinds] : n \in 0..MaxDiffLines}}

\* a diff of a file with n + 1 lines, n of them added and m others removed
LongDiff(n, m) ==
  <<"diff --git a/", "a.txt", " b/", "a.txt", "\n">>
  \o <<"-", "-", "-", " a/", "a.txt", "\n">>
  \o <<"+", "+", "+", " b/", "a.txt", "\n">>
  \o <<"@@ @@", "\n", " ", "x", "\n">>
  \o Lines([i \in 1..n |-> <<"+", "a">> \o Decimal(i)])
  \o Lines([i \in 1..m |-> <<"-", "d">> \o Decimal(i)])

\* the numbers of lines just below and just above what a response lists
CapEdges == {FileDiffCap - 1, FileDiffCap, FileDiffCap + 1,
             AdditionsCap - 1, AdditionsCap, AdditionsCap + 1}

LongDiffs == {LongDiff(n, m) : n, m \in CapEdges}

DiffTexts == ShortDiffs \cup LongDiffs

InitDiff ==
  /\ variant \in {v \in Variants : "show_file_diff" \in Routes(v)}
  /\ repo = Repo([b \in {"main", "feature"} |-> IF b = "main" THEN "c0" ELSE "c1"],
                 <<"feature">>, "c1")
  /\ calls = [c \in Calls |-> NewCall]

\* a show_file_diff request with both branches named reaches the server
ArriveDiff ==
  /\ calls[1].pc = "new"
  /\ calls' = [calls EXCEPT ![1].pc = "queued",
                            ![1].req = Request("show_file_diff",
                                         [repoPath |-> <<"/repo">>, filename |-> <<"a.txt">>,
                                          fromBranch |-> <<"main">>, toBranch |-> <<"feature">>])]
  /\ UNCHANGED <<variant, repo>>

\* git diff exits 0 having printed some text: the file's content is anything
DiffReturn(c) ==
  /\ calls[c].pc = "exec"
  /\ calls[c].at = "diff"
  /\ \E text \in DiffTexts :
     \E st \in {Continue(variant, calls[c].req, calls[c].at, calls[c].loc,
                          [ok |-> TRUE, out |-> text, msg |-> <<>>, repo |-> repo])} :
       calls' = [calls EXCEPT ![c] =
         Advance([calls[c] EXCEPT !.outs = Append(@, [ok |-> TRUE, out |-> text,
                                                      msg |-> <<>>])],
                 st, repo)]
  /\ UNCHANGED <<variant, repo>>

NextDiff == ArriveDiff \/ Begin(1) \/ DiffReturn(1) \/ Resume(1)

SpecDiff == InitDiff /\ [][NextDiff]_vars

\* ------------------------------------------ one merge diff, any statistics
\* The lines a numstat text is made of: a text file's and a binary file's line, lines
\* with one token that is no number ("-", empty, a word), a line of words, a line of
\* one field, an empty line and a line of a single number.
StatLineKinds ==
  { <<"1", "2", "\t", "3", "\t", "a.txt">>, <<"-", "\t", "-", "\t", "b.bin">>,
    <<"-", "\t", "4", "\t", "f">>, <<"5", "\t", "-", "\t", "f">>,
    <<"\t", "6", "\t", "f">>, <<"7", "\t", "\t", "f">>,
    <<"x", "\t", "y", "\t", "f">>, <<"junk">>, <<>>, <<"8">> }

\* how many lines the numstat texts have at most
MaxStatLines == 2

StatTexts == {Lines(ls) : ls \in UNION {[1..n -> StatLineKinds] : n \in 0..MaxStatLines}}

\* what the commit count may print: a number, zero, nothing, a word
CountTexts == { <<"3", "\n">>, <<"0", "\n">>, <<>>, <<"fatal", "\n">> }

InitStat ==
  /\ variant \in {v \in Variants : "show_merge_diff" \in Routes(v)}
  /\ repo = Repo([b \in {"main", "feature"} |-> IF b = "main" THEN "c0" ELSE "c1"],
                 <<"feature">>, "c1")
  /\ calls = [c \in Calls |-> NewCall]

\* a show_merge_diff request with both branches named reaches the server
ArriveStat ==
  /\ calls[1].pc = "new"
  /\ calls' = [calls EXCEPT ![1].pc = "queued",
                            ![1].req = Request("show_merge_diff",
                                         [repoPath |-> <<"/repo">>, fromBranch |-> <<"main">>,
                                          toBranch |-> <<"feature">>])]
  /\ UNCHANGED <<variant, repo>>

\* the numstat or the count query exits 0 having printed some text
StatReturn(c) ==
  /\ calls[c].pc = "exec"
  /\ calls[c].at \in {"numstat", "count"}
  /\ \E text \in IF calls[c].at = "numstat" THEN StatTexts ELSE CountTexts :
     \E st \in {Continue(variant, calls[c].req, calls[c].at, calls[c].loc,
                          [ok |-> TRUE, out |-> text, msg |-> <<>>, repo |-> repo])} :
       calls' = [calls EXCEPT ![c] =
         Advance([calls[c] EXCEPT !.outs = Append(@, [ok |-> TRUE, out |-> text,
                                                      msg |-> <<>>])],
                 st, repo)]
  /\ UNCHANGED <<variant, repo>>

\* the numstat or the count query fails, whatever the earlier queries did: git is
\* killed, or prints more than execSync's buffer holds
StatFails(c) ==
  /\ calls[c].pc = "exec"
  /\ calls[c].at \in {"numstat", "count"}
  /\ \E res \in {[ok |-> FALSE, out |-> <<>>, repo |-> repo,
                   msg |-> <<"Command failed: ">> \o calls[c].cmds[Len(calls[c].cmds)]]} :
     \E st \in {Continue(variant, calls[c].req, calls[c].at, calls[c].loc, res)} :
       calls' = [calls EXCEPT ![c] =
         Advance([calls[c] EXCEPT !.outs = Append(@, [ok |-> FALSE, out |-> <<>>,
                                                      msg |-> res.msg])],
                 st, repo)]
  /\ UNCHANGED <<variant, repo>>

NextStat ==
  ArriveStat \/ Begin(1) \/ ExecReturn(1) \/ StatReturn(1) \/ StatFails(1) \/ Resume(1)

SpecStat == InitStat /\ [][NextStat]_vars

\* ------------------------------------------ list-tools and call-tool requests
\* a list-tools request
ListRequest == [method |-> "tools/list"]

\* call-tool requests for each of the three tool names and for a name no build has,
\* sent to every build whether it advertises the name or not
NamedCalls ==
  {Request(n, [repoPath |-> <<"/repo">>, filename |-> <<"a.txt">>]) :
     n \in {"show_merge_diff", "quick_merge_summary", "show_file_diff", "does_not_exist"}}

\* A list-tools request reaches the server.
ArriveList(c) ==
  /\ calls[c].pc = "new"
  /\ \A d \in Calls : d < c => calls[d].pc # "new"
  /\ calls' = [calls EXCEPT ![c].pc = "listing", ![c].req = ListRequest]
  /\ UNCHANGED <<variant, repo>>

\* A call-tool request reaches the server.
ArriveNamed(c) ==
  /\ calls[c].pc = "new"
  /\ \A d \in Calls : d < c => calls[d].pc # "new"
  /\ \E req \in NamedCalls : calls' = [calls EXCEPT ![c].pc = "queued", ![c].req = req]
  /\ UNCHANGED <<variant, repo>>

\* The list-tools handler: async () => ({ tools: [...] }), the array written out in
\* the handler.
ListTools(c) ==
  /\ calls[c].pc = "listing"
  /\ ~ThreadBusy
  /\ calls' = [calls EXCEPT ![c].pc = "done", ![c].before = repo, ![c].after = repo,
                            ![c].out = Success([tools |-> Catalog(variant)])]
  /\ UNCHANGED <<variant, repo>>

NextList ==
  \E c \in Calls : \/ ArriveList(c) \/ ArriveNamed(c) \/ ListTools(c)
                    \/ Begin(c) \/ ExecReturn(c) \/ Resume(c)

\* A server that receives list-tools and call-tool requests in any order.
SpecList == Init /\ [][NextList]_vars

\* The same server, with what keeps it going: every subprocess that was started
\* returns (execSync blocks until the child has exited), and the event loop runs every
\* handler that is due and every continuation whose promise has settled.
SpecLive ==
  /\ SpecList
  /\ \A c \in Calls : /\ WF_vars(ExecReturn(c))
                       /\ WF_vars(Begin(c))
                       /\ WF_vars(Resume(c))
                       /\ WF_vars(ListTools(c))

\* ----------------------------------------------------------------- claims
\* text s contains text p
Includes(s, p) == \E i \in 0..(Len(s) - Len(p)) : SubSeq(s, i + 1, i + Len(p)) = p

ToolNames == {"show_merge_diff", "quick_merge_summary", "show_file_diff"}

Done(c) == calls[c].pc = "done"

\* the call has run its tool handler to the end
Settled(c) == calls[c].pc \in {"await", "done"}

\* the call-tool handler of the call has started
Started(c) == calls[c].pc \in {"exec", "await", "done"}

Catalogued(c) == calls[c].req.name \in Range(Catalog(variant))

RepoPathOf(c) == Prop(calls[c].req.args, "repoPath")

\* the value a successful call's response carries as JSON text
Json(c) == calls[c].out.result.content[1].text.json

Succeeded(c) == Done(c) /\ calls[c].out.ok

\* C1: a call-tool request for a name outside the catalog fails with a protocol error
\* of kind MethodNotFound whose message contains the requested name.
C1_UnknownToolIsMethodNotFound ==
  \A c \in Calls :
    Done(c) /\ ~Catalogued(c) =>
      /\ ~calls[c].out.ok
      /\ calls[c].out.error.cls = "McpError"
      /\ calls[c].out.error.code = "MethodNotFound"
      /\ Includes(calls[c].out.error.message, <<calls[c].req.name>>)

\* C2: every failure raised while a catalogued tool is handled reaches the caller as a
\* protocol error of kind InternalError whose message contains the original failure's
\* message, in every build variant.
C2_FailuresAreInternalErrors ==
  \A c \in Calls :
    Done(c) /\ Catalogued(c) /\ calls[c].raised # None =>
      /\ ~calls[c].out.ok
      /\ calls[c].out.error.cls = "McpError"
      /\ calls[c].out.error.code = "InternalError"
      /\ Includes(calls[c].out.error.message, calls[c].raised.message)

\* the call names one of the three tools, the build routes it, and its repoPath does
\* not exist
OnMissingRepo(c) ==
  /\ Started(c)
  /\ calls[c].req.name \in ToolNames \cap Routes(variant)
  /\ calls[c].req.hasArgs
  /\ FsKind(RepoPathOf(c)) = "missing"

\* C3: when repoPath does not exist, show_merge_diff, quick_merge_summary and
\* show_file_diff fail with a 'repository not found' error that names the path, and
\* the call starts no git subprocess at any point.
C3_MissingRepoFailsBeforeAnySubprocess ==
  \A c \in Calls :
    OnMissingRepo(c) =>
      /\ calls[c].cmds = <<>>
      /\ Settled(c)
      /\ \E lit \in {"Repository not found: ", "Repozitorij ne najden: "} :
           calls[c].raised.message = <<lit>> \o Template(RepoPathOf(c))
      /\ Done(c) => /\ ~calls[c].out.ok
                    /\ Includes(calls[c].out.error.message, calls[c].raised.message)

C3_Witness ==
  \E c \in Calls : OnMissingRepo(c) /\ Done(c) /\ calls[c].req.name = "quick_merge_summary"

ReadOnlyQueries ==
  {"git branch --show-current", "git show-ref --verify refs/heads/main",
   "git show-ref --verify refs/heads/master", "git diff --name-only ",
   "git diff --numstat ", "git rev-list --count ", "git diff "}

\* C4: whatever the arguments, every subprocess the server starts is one of the
\* non-mutating queries and nothing else is executed, so a call leaves the repository
\* as it found it.
C4_RepositoryIsReadOnly ==
  \A c \in Calls :
    /\ Settled(c) => calls[c].after = calls[c].before
    /\ \A i \in 1..Len(calls[c].cmds) :
         \A seg \in Range(ShellCommands(calls[c].cmds[i])) :
           seg # <<>> /\ Head(seg) \in ReadOnlyQueries

\* the injected command has run: a call settled on a repository that lost its branch main
C4_BranchDeleted ==
  \E c \in Calls :
    /\ Settled(c) /\ calls[c].req.name = "show_merge_diff"
    /\ "main" \in DOMAIN calls[c].before.tip
    /\ "main" \notin DOMAIN calls[c].after.tip
    /\ repo = calls[c].after

\* C5 as claimed: a subprocess of one call starts only when every other call that was
\* begun has been handled to completion.
C5_HandledToCompletionFirst ==
  \A c, d \in Calls :
    c # d /\ calls[c].pc = "exec" => calls[d].pc \in {"new", "queued", "done"}

\* C5 as amended: while a subprocess of one call runs, no subprocess of another call
\* runs, and every other call has either started none yet or has run all of its own:
\* its tool handler has settled, although its call-tool handler may still wait at
\* `return await`.
C5_SubprocessesNeverOverlap ==
  \A c, d \in Calls :
    c # d /\ calls[c].pc = "exec" =>
      /\ calls[d].pc # "exec"
      /\ calls[d].cmds = <<>> \/ Settled(d)

C5_Witness ==
  \E c, d \in Calls :
    c # d /\ calls[c].pc = "exec" /\ calls[d].pc = "await" /\ Len(calls[d].cmds) >= 2

\* the call ran on a repository that nothing changed while it ran
SawRepo(c, r) == calls[c].before = r /\ calls[c].after = r

RangeCount(r, from, to) == Cardinality(Ancestors(Resolve(r, to)) \ Ancestors(Resolve(r, from)))

\* C7: whenever the range fromBranch..toBranch holds no commit, mergeInfo returns
\* commits = 0, the 'no new commits' summary, no changed file and insertions =
\* deletions = 0, also when toBranch is strictly behind fromBranch.
C7_NoCommitsMeansNoChanges ==
  \A c \in Calls :
    Succeeded(c) /\ calls[c].req.name = "show_merge_diff"
      /\ RangeCount(calls[c].before, Json(c).sourceBranch, Json(c).targetBranch) = 0
      => /\ Json(c).commits = Num(0)
         /\ \E lit \in {"No new commits for merge", "Net novyh kommitov dlya merge"} :
              Json(c).summary = <<lit>>
         /\ Json(c).filesChanged = <<>>
         /\ Json(c).insertions = Num(0)
         /\ Json(c).deletions = Num(0)

\* the fields of a tool's result that hold counts (in show_file_diff's result,
\* `deletions` is the list of removed lines)
CountFields(name) ==
  CASE name = "show_merge_diff" -> {"insertions", "deletions", "commits"}
    [] name = "quick_merge_summary" -> {"aheadBy", "behindBy"}
    [] OTHER -> {"totalAdded", "totalRemoved"}

\* C8: every count a result carries (insertions, deletions, commits, aheadBy, behindBy,
\* the parser's added and removed totals, and the counts a summary prints) is a
\* non-negative integer: never negative, never NaN.
C8_CountsAreNaturals ==
  \A c \in Calls :
    Succeeded(c) =>
      /\ \A k \in CountFields(calls[c].req.name) \cap DOMAIN Json(c) :
           ~Json(c)[k].nan /\ Json(c)[k].v >= 0
      /\ "summary" \in DOMAIN Json(c) =>
           /\ "NaN" \notin Range(Json(c).summary)
           /\ "-" \notin Range(Json(c).summary)

\* a merge result over a binary file, whose numstat line reads "-  -  b.bin"
C8_Witness ==
  \E c \in Calls :
    /\ Succeeded(c) /\ calls[c].req.name = "show_merge_diff"
    /\ \E i \in 1..Len(Json(c).filesChanged) : Json(c).filesChanged[i] = <<"b.bin">>
    /\ JsPositive(Json(c).insertions)

\* C9: the default branch reported is "main" whenever refs/heads/main exists (also
\* when master exists too) and "master" otherwise.
C9_DefaultBranchProbesMain ==
  \A c \in Calls :
    Succeeded(c) /\ calls[c].req.name = "quick_merge_summary"
      /\ FsKind(RepoPathOf(c)) = "repo"
      => Json(c).baseBranch =
           (IF "main" \in DOMAIN calls[c].before.tip THEN <<"main">> ELSE <<"master">>)

\* what default-branch detection answers in repository r
DetectedDefault(v, r) == getMainBranch(v, [ok |-> ProbedBranch(v) \in DOMAIN r.tip])

\* a show_merge_diff call on the repository that leaves fromBranch out
MergeWithoutFrom(c) ==
  /\ Started(c)
  /\ calls[c].req.name = "show_merge_diff"
  /\ calls[c].req.hasArgs
  /\ "fromBranch" \notin DOMAIN calls[c].req.args
  /\ FsKind(RepoPathOf(c)) = "repo"

\* C10 as claimed: without fromBranch, show_merge_diff reports as sourceBranch the
\* repository's detected default branch.
C10_MergeDefaultsToDetectedBranch ==
  \A c \in Calls :
    MergeWithoutFrom(c) /\ Succeeded(c) =>
      Json(c).sourceBranch = DetectedDefault(variant, calls[c].before)

\* C10 as amended: without fromBranch, show_merge_diff uses the fixed name "main" as
\* the source of all three queries and reports it as sourceBranch, whatever
\* default-branch detection would answer.
C10_MergeDefaultsToMain ==
  \A c \in Calls :
    MergeWithoutFrom(c) =>
      /\ \A i \in 1..Len(calls[c].cmds) :
           calls[c].cmds[i] # CmdCurrentBranch => SubSeq(calls[c].cmds[i], 2, 3) = <<"main", "..">>
      /\ Succeeded(c) => Json(c).sourceBranch = <<"main">>

C10_Witness ==
  \E c \in Calls :
    /\ MergeWithoutFrom(c) /\ Succeeded(c)
    /\ DetectedDefault(variant, calls[c].before) = <<"master">>
    /\ Len(calls[c].cmds) >= 3

\* ---- C11: branch defaulting
\* the argument that names the branch under review, and the field that reports it
TargetKey(name) == IF name = "quick_merge_summary" THEN "branch" ELSE "toBranch"

TargetField(name) ==
  CASE name = "show_merge_diff" -> "targetBranch"
    [] name = "quick_merge_summary" -> "currentBranch"
    [] OTHER -> "toBranch"

SourceField(name) == IF name = "show_merge_diff" THEN "sourceBranch" ELSE "fromBranch"

Given(c, key) == key \in DOMAIN calls[c].req.args

\* what the call's query cmd printed, trimmed; <<"?">> when the call did not run it
Answer(c, cmd) ==
  LET at == {i \in 1..Len(calls[c].outs) : calls[c].cmds[i] = cmd}
  IN  IF at = {} THEN <<"?">> ELSE Trim(calls[c].outs[CHOOSE i \in at : TRUE].out)

Ran(c, cmd) == \E i \in 1..Len(calls[c].cmds) : calls[c].cmds[i] = cmd

\* a routed call with arguments whose path exists and whose tool handler has ended
Handled(c) ==
  /\ Settled(c)
  /\ calls[c].req.name \in ToolNames \cap Routes(variant)
  /\ calls[c].req.hasArgs
  /\ FsKind(RepoPathOf(c)) # "missing"

\* an omitted target branch is the answer of the current-branch query
TargetDefaultsToCurrent(c) ==
  ~Given(c, TargetKey(calls[c].req.name)) =>
    /\ Ran(c, CmdCurrentBranch)
    /\ Succeeded(c) => Json(c)[TargetField(calls[c].req.name)] = Answer(c, CmdCurrentBranch)

\* show_file_diff without fromBranch compares from the detected default branch
FileDiffSourceDetected(c) ==
  calls[c].req.name = "show_file_diff" /\ ~Given(c, "fromBranch") =>
    /\ Ran(c, CmdShowRef(ProbedBranch(variant)))
    /\ Succeeded(c) => Json(c).fromBranch = DetectedDefault(variant, calls[c].before)

\* a supplied branch is used as it is, and nothing is asked of git to find it
GivenBranchesUsed(c) ==
  /\ Given(c, TargetKey(calls[c].req.name)) =>
       /\ ~Ran(c, CmdCurrentBranch)
       /\ Succeeded(c) => Json(c)[TargetField(calls[c].req.name)]
                            = calls[c].req.args[TargetKey(calls[c].req.name)]
  /\ calls[c].req.name # "quick_merge_summary" /\ Given(c, "fromBranch") =>
       /\ \A b \in BranchNames : ~Ran(c, CmdShowRef(b))
       /\ Succeeded(c) => Json(c)[SourceField(calls[c].req.name)] = calls[c].req.args.fromBranch

\* C11 as claimed: in every build, an omitted toBranch or branch is replaced by the
\* answer of the current-branch query, show_file_diff without fromBranch uses the
\* detected default branch, and a supplied branch is used unchanged without the
\* corresponding detection query being run.
C11_BranchDefaults ==
  \A c \in Calls :
    Handled(c) => TargetDefaultsToCurrent(c) /\ FileDiffSourceDetected(c) /\ GivenBranchesUsed(c)

\* the argument is absent or the empty string
Unnamed(c, key) == ~Given(c, key) \/ calls[c].req.args[key] = <<>>

\* the three-tool servers: detection runs exactly for an absent or empty branch
DetectsWhenUnnamed(c) ==
  LET name == calls[c].req.name
      args == calls[c].req.args
  IN  /\ Unnamed(c, TargetKey(name)) =>
           /\ Ran(c, CmdCurrentBranch)
           /\ Succeeded(c) => Json(c)[TargetField(name)] = Answer(c, CmdCurrentBranch)
      /\ ~Unnamed(c, TargetKey(name)) =>
           /\ ~Ran(c, CmdCurrentBranch)
           /\ Succeeded(c) => Json(c)[TargetField(name)] = args[TargetKey(name)]
      /\ name = "show_file_diff" /\ Unnamed(c, "fromBranch") =>
           /\ Ran(c, CmdShowRef(ProbedBranch(variant)))
           /\ Succeeded(c) => Json(c).fromBranch = DetectedDefault(variant, calls[c].before)
      /\ \/ name = "show_file_diff" /\ ~Unnamed(c, "fromBranch")
         \/ name = "show_merge_diff" /\ Given(c, "fromBranch")
         => /\ \A b \in BranchNames : ~Ran(c, CmdShowRef(b))
            /\ Succeeded(c) => Json(c)[SourceField(name)] = args.fromBranch

\* the single-file server: no detection, fixed names for absent branches
FixedWhenOmitted(c) ==
  /\ \A i \in 1..Len(calls[c].cmds) : Head(calls[c].cmds[i]) = "git diff "
  /\ Succeeded(c) =>
       /\ Json(c).fromBranch = IF Given(c, "fromBranch") THEN calls[c].req.args.fromBranch
                                                        ELSE <<"master">>
       /\ Json(c).toBranch = IF Given(c, "toBranch") THEN calls[c].req.args.toBranch
                                                    ELSE <<"HEAD">>

\* C11 as amended: in the three-tool servers a toBranch or branch that is omitted or
\* empty is replaced by the answer of the current-branch query, show_file_diff with
\* an omitted or empty fromBranch uses the detected default branch, and a supplied
\* non-empty branch is used unchanged without the corresponding detection query; the
\* single-file server runs no detection, uses a supplied branch unchanged and
\* replaces an omitted fromBranch by "master" and an omitted toBranch by "HEAD".
C11_BranchDefaultsPerBuild ==
  \A c \in Calls :
    Handled(c) => IF variant = "FileDiff" THEN FixedWhenOmitted(c) ELSE DetectsWhenUnnamed(c)

\* a three-tool server answered show_file_diff after detecting both branches
C11_Witness ==
  \E c \in Calls :
    /\ Handled(c) /\ Succeeded(c) /\ calls[c].req.name = "show_file_diff"
    /\ variant # "FileDiff"
    /\ ~Given(c, "fromBranch") /\ ~Given(c, "toBranch")
    /\ Json(c).toBranch = <<"feature">>
    /\ Len(calls[c].cmds) = 3

\* ---- C12, C13, C14: divergence
\* a quick_merge_summary call answered with a result
QuickDone(c) == Succeeded(c) /\ calls[c].req.name = "quick_merge_summary"

\* where among the call's subprocesses the two count queries are
CountRuns(c) == {i \in 1..Len(calls[c].outs) : Head(calls[c].cmds[i]) = "git rev-list --count "}

BothCounted(c) == Cardinality(CountRuns(c)) = 2 /\ \A i \in CountRuns(c) : calls[c].outs[i].ok

CountFailed(c) == \E i \in CountRuns(c) : ~calls[c].outs[i].ok

\* C12: divergence answers needsMerge = false whenever base and current are the same
\* name, without asking git for any count; when they differ and both count queries
\* succeed, needsMerge is true exactly when aheadBy > 0 or behindBy > 0.
C12_NeedsMerge ==
  \A c \in Calls :
    QuickDone(c) =>
      LET j == Json(c)
      IN  /\ j.baseBranch = j.currentBranch =>
               /\ CountRuns(c) = {}
               /\ "needsMerge" \in DOMAIN j /\ j.needsMerge = FALSE
          /\ j.baseBranch # j.currentBranch /\ BothCounted(c) =>
               /\ {"needsMerge", "aheadBy", "behindBy"} \subseteq DOMAIN j
               /\ ~j.aheadBy.nan /\ ~j.behindBy.nan
               /\ j.needsMerge <=> (j.aheadBy.v > 0 \/ j.behindBy.v > 0)

\* a branch that is only behind its base needs a merge
C12_Witness ==
  \E c \in Calls :
    /\ QuickDone(c) /\ BothCounted(c)
    /\ Json(c).aheadBy = Num(0) /\ Json(c).behindBy.v > 0 /\ Json(c).needsMerge

\* the message the four templates give for the reported counts
DivergenceMessage(v, n, m) ==
  CASE n = 0 /\ m = 0 -> <<Say(v, "Branches are synchronized", "Vetki sinhronizirovany")>>
    [] n > 0 /\ m = 0 -> <<Say(v, "Ahead by ", "Operezhaet na ")>> \o Decimal(n)
                          \o <<Say(v, " commits", " kommitov")>>
    [] n = 0 /\ m > 0 -> <<Say(v, "Behind by ", "Otstaet na ")>> \o Decimal(m)
                          \o <<Say(v, " commits", " kommitov")>>
    [] OTHER -> <<Say(v, "Ahead by ", "Operezhaet na ")>> \o Decimal(n)
                \o <<Say(v, ", behind by ", ", otstaet na ")>> \o Decimal(m)
                \o <<Say(v, " commits", " kommitov")>>

\* C13: when base differs from current and both count queries succeed, the message is
\* the one of the four templates (synchronized, ahead by N, behind by N, ahead by N
\* and behind by M) that the pair (aheadBy > 0, behindBy > 0) selects, with the
\* reported aheadBy and behindBy as N and M.
C13_MessageAgreesWithCounts ==
  \A c \in Calls :
    QuickDone(c) /\ Json(c).baseBranch # Json(c).currentBranch /\ BothCounted(c) =>
      Json(c).message = DivergenceMessage(variant, Json(c).aheadBy.v, Json(c).behindBy.v)

\* a branch ahead and behind by different numbers of commits
C13_Witness ==
  \E c \in Calls :
    /\ QuickDone(c) /\ BothCounted(c)
    /\ Json(c).aheadBy.v > 0 /\ Json(c).behindBy.v > Json(c).aheadBy.v

\* C14: when base differs from current and the ahead-count or the behind-count
\* subprocess fails, divergence does not raise: quick_merge_summary answers with a
\* result made of the two branch names, the fixed 'failed to determine status'
\* message and an error field holding the failure's message, and no aheadBy,
\* behindBy or needsMerge.
C14_DegradedDivergence ==
  \A c \in Calls :
    Done(c) /\ calls[c].req.name = "quick_merge_summary" /\ CountFailed(c) =>
      /\ calls[c].raised = None /\ calls[c].out.ok
      /\ Json(c).baseBranch # Json(c).currentBranch
      /\ DOMAIN Json(c) = {"currentBranch", "baseBranch", "message", "error"}
      /\ Json(c).message = <<Say(variant, "Failed to determine status",
                                          "Ne udalos' opredelit' status")>>
      /\ \E i \in CountRuns(c) :
           /\ ~calls[c].outs[i].ok
           /\ Json(c).error = <<Say(variant, "Git error: ", "Git oshibka: ")>>
                                \o calls[c].outs[i].msg

\* the ahead count succeeded and the behind count failed
C14_Witness ==
  \E c \in Calls :
    /\ Done(c) /\ calls[c].req.name = "quick_merge_summary"
    /\ Cardinality(CountRuns(c)) = 2 /\ CountFailed(c)
    /\ calls[c].out.ok

\* ---- C18, C19: mergeInfo
MergeDone(c) == Succeeded(c) /\ calls[c].req.name = "show_merge_diff"

\* C18: the summary of a mergeInfo is the fixed 'no new commits' message exactly
\* when commits = 0, and otherwise reads '{commits} commits, {fileCount} files,
\* +{insertions}/-{deletions} lines' with the record's own commits, insertions and
\* deletions and the length of its filesChanged.
C18_MergeSummary ==
  \A c \in Calls :
    MergeDone(c) =>
      LET j == Json(c)
          none == <<Say(variant, "No new commits for merge", "Net novyh kommitov dlya merge")>>
      IN  /\ ~j.commits.nan /\ ~j.insertions.nan /\ ~j.deletions.nan
          /\ j.summary = none <=> j.commits.v = 0
          /\ j.commits.v # 0 =>
               j.summary = Decimal(j.commits.v) \o <<Say(variant, " commits, ", " kommitov, ")>>
                           \o Decimal(Len(j.filesChanged))
                           \o <<Say(variant, " files, +", " fajlov, +")>>
                           \o Decimal(j.insertions.v) \o <<"/-">> \o Decimal(j.deletions.v)
                           \o <<Say(variant, " lines", " strok")>>

\* a merge of two commits that change one file by more than a hundred lines
C18_Witness ==
  \E c \in Calls :
    /\ MergeDone(c) /\ Json(c).commits.v = 2 /\ Len(Json(c).filesChanged) = 1
    /\ Json(c).insertions.v > 100

\* what the call's query that starts with `query` printed
OutputOf(c, query) ==
  LET at == {i \in 1..Len(calls[c].outs) : Head(calls[c].cmds[i]) = query}
  IN  calls[c].outs[CHOOSE i \in at : TRUE].out

\* the number in column k of a numstat line; 0 where there is none
Column(line, k) ==
  LET parts == Split(line, "\t")
  IN  IF Len(parts) >= 2 /\ ~parseInt(parts[k]).nan THEN parseInt(parts[k]).v ELSE 0

RECURSIVE ColumnSum(_, _)
ColumnSum(lines, k) ==
  IF lines = <<>> THEN 0 ELSE Column(Head(lines), k) + ColumnSum(Tail(lines), k)

\* the call compared the root commit with the commit that replaces one line of
\* a.txt by two
OneCommitExample(c) ==
  /\ Resolve(calls[c].before, Json(c).sourceBranch) = "c0"
  /\ Resolve(calls[c].before, Json(c).targetBranch) = "c1"

\* C19: a successful show_merge_diff reports the given or defaulted branch names
\* (the current branch for an omitted toBranch), as filesChanged the non-blank lines
\* of the changed-file query in order, as insertions and deletions the sums of the
\* first and second numstat columns, and as commits the number of commits in the
\* range; one commit adding 2 lines and removing 1 in a.txt gives [a.txt], 2, 1, 1
\* and the summary '1 commits, 1 files, +2/-1 lines'.
C19_MergeInfoFields ==
  \A c \in Calls :
    MergeDone(c) =>
      LET j == Json(c)
          args == calls[c].req.args
      IN  /\ j.sourceBranch = IF Given(c, "fromBranch") THEN args.fromBranch ELSE <<"main">>
          /\ j.targetBranch = IF Unnamed(c, "toBranch") THEN Answer(c, CmdCurrentBranch)
                                                        ELSE args.toBranch
          /\ j.filesChanged = SelectSeq(Split(OutputOf(c, "git diff --name-only "), "\n"),
                                        LAMBDA l : Trim(l) # <<>>)
          /\ j.insertions = Num(ColumnSum(Split(OutputOf(c, "git diff --numstat "), "\n"), 1))
          /\ j.deletions = Num(ColumnSum(Split(OutputOf(c, "git diff --numstat "), "\n"), 2))
          /\ j.commits = Num(RangeCount(calls[c].before, j.sourceBranch, j.targetBranch))
          /\ OneCommitExample(c) =>
               /\ j.filesChanged = << <<"a.txt">> >>
               /\ j.insertions = Num(2) /\ j.deletions = Num(1) /\ j.commits = Num(1)
               /\ variant # "TwoTool" =>
                    j.summary = <<"1", " commits, ", "1", " files, +", "2", "/-", "1", " lines">>

\* the example merge, its target branch taken from the checkout
C19_Witness ==
  \E c \in Calls :
    /\ MergeDone(c) /\ OneCommitExample(c)
    /\ ~Given(c, "toBranch") /\ Json(c).targetBranch = <<"feature">>
    /\ variant = "GitUtils"

\* ---- C15, C16, C17, C20: the diff parser and show_file_diff
FileDiffDone(c) == Succeeded(c) /\ calls[c].req.name = "show_file_diff"

\* the text the handler got from its git diff
DiffOutput(c) ==
  IF variant = "FileDiff" THEN OutputOf(c, "git diff ") ELSE Trim(OutputOf(c, "git diff "))

\* the handler gave the text to its parser (SimpleFileDiffMCP does not parse a blank one)
Parsed(c) == FileDiffDone(c) /\ (variant = "FileDiff" => Trim(DiffOutput(c)) # <<>>)

IsAddition(l) == Len(l) >= 1 /\ l[1] = "+" /\ ~(Len(l) >= 3 /\ l[2] = "+" /\ l[3] = "+")

IsDeletion(l) == Len(l) >= 1 /\ l[1] = "-" /\ ~(Len(l) >= 3 /\ l[2] = "-" /\ l[3] = "-")

\* the lines of the text that are additions (deletions), in order, without their sign
AddedOf(c) ==
  LET ls == SelectSeq(Split(DiffOutput(c), "\n"), IsAddition)
  IN  [i \in 1..Len(ls) |-> SubSeq(ls[i], 2, Len(ls[i]))]

DeletedOf(c) ==
  LET ls == SelectSeq(Split(DiffOutput(c), "\n"), IsDeletion)
  IN  [i \in 1..Len(ls) |-> SubSeq(ls[i], 2, Len(ls[i]))]

\* the two lists of a response, under the names the build gives them
ListedAdditions(c) == IF variant = "FileDiff" THEN Json(c).added ELSE Json(c).additions

ListedDeletions(c) == IF variant = "FileDiff" THEN Json(c).removed ELSE Json(c).deletions

CapOf(v) == IF v = "FileDiff" THEN FileDiffCap ELSE AdditionsCap

\* '+{n} lines, -{m} lines'
CountsSummary(v, n, m) ==
  <<"+">> \o Decimal(n) \o <<Say(v, " lines, -", " strok, -")>> \o Decimal(m)
  \o <<Say(v, " lines", " strok")>>

\* the text a response gives as its summary
SummaryText(c) == IF "summary" \in DOMAIN Json(c) THEN Json(c).summary ELSE Json(c).message

Min(a, b) == IF a < b THEN a ELSE b

\* C15: the parser classifies every line on its own: an addition starts with '+' but
\* not '+++', a deletion with '-' but not '---', any other line is ignored; each
\* classified line goes, without its first character, to the end of its list and adds
\* one to its counter.  '+++ b/a.txt' is never counted; '+foo' is the addition 'foo'.
C15_LinesClassified ==
  \A c \in Calls :
    Parsed(c) =>
      /\ Len(AddedOf(c)) <= CapOf(variant) => ListedAdditions(c) = AddedOf(c)
      /\ Len(DeletedOf(c)) <= CapOf(variant) => ListedDeletions(c) = DeletedOf(c)
      /\ variant = "FileDiff" =>
           /\ Json(c).totalAdded = Num(Len(AddedOf(c)))
           /\ Json(c).totalRemoved = Num(Len(DeletedOf(c)))
      /\ Len(AddedOf(c)) + Len(DeletedOf(c)) > 0 =>
           Json(c).summary = CountsSummary(variant, Len(AddedOf(c)), Len(DeletedOf(c)))

\* a text with the header '+++ b/a.txt' and the line '+foo': one addition, 'foo'
C15_Witness ==
  \E c \in Calls :
    /\ Parsed(c)
    /\ \E i, k \in 1..Len(Split(DiffOutput(c), "\n")) :
         /\ i < k
         /\ Split(DiffOutput(c), "\n")[i] = <<"+", "+", "+", " b/", "a.txt">>
         /\ Split(DiffOutput(c), "\n")[k] = <<"+", "foo">>
    /\ ListedAdditions(c) = << <<"foo">> >>

\* C16: for every diff text the additions list has min(addedCount, cap) entries and
\* the deletions list min(deletedCount, cap), the first cap classified lines in
\* order (cap 50 in the three-tool servers, 20 in the single-file server), while the
\* summary names the uncapped counts.
C16_ListsCapped ==
  \A c \in Calls :
    Parsed(c) =>
      /\ Len(ListedAdditions(c)) = Min(Len(AddedOf(c)), CapOf(variant))
      /\ Len(ListedDeletions(c)) = Min(Len(DeletedOf(c)), CapOf(variant))
      /\ ListedAdditions(c) = SubSeq(AddedOf(c), 1, Len(ListedAdditions(c)))
      /\ ListedDeletions(c) = SubSeq(DeletedOf(c), 1, Len(ListedDeletions(c)))
      /\ Len(AddedOf(c)) + Len(DeletedOf(c)) > 0 =>
           Json(c).summary = CountsSummary(variant, Len(AddedOf(c)), Len(DeletedOf(c)))

\* one more addition than the cap, and fewer deletions than the cap
C16_Witness ==
  \E c \in Calls :
    /\ Parsed(c)
    /\ Len(AddedOf(c)) = CapOf(variant) + 1 /\ Len(ListedAdditions(c)) = CapOf(variant)
    /\ Len(DeletedOf(c)) = CapOf(variant) - 1 /\ Len(ListedDeletions(c)) = CapOf(variant) - 1

\* C17: in every show_file_diff response of every build hasChanges is true exactly
\* when addedCount > 0 or deletedCount > 0, and the summary is '+{added} lines,
\* -{deleted} lines' exactly when hasChanges is true and the fixed 'no changes' text
\* otherwise, also for a non-empty diff without added or removed lines.
C17_HasChangesIffCounted ==
  \A c \in Calls :
    FileDiffDone(c) =>
      LET n == Len(AddedOf(c))
          m == Len(DeletedOf(c))
      IN  /\ Json(c).hasChanges <=> (n > 0 \/ m > 0)
          /\ SummaryText(c) = IF Json(c).hasChanges THEN CountsSummary(variant, n, m)
                               ELSE <<Say(variant, "No changes in the file",
                                                   "Net izmenenij v fajle")>>

\* the single-file server reports a change of no added and no removed line
C17_ChangedWithoutLines ==
  \E c \in Calls :
    /\ FileDiffDone(c) /\ variant = "FileDiff"
    /\ Json(c).hasChanges /\ Json(c).totalAdded = Num(0) /\ Json(c).totalRemoved = Num(0)

\* C20: rawDiff is the first min(100, n) of the n lines of the raw diff text, in
\* their order; hasChanges, the two lists and the summary are computed from the whole
\* text all the same.
C20_RawDiffTruncated ==
  \A c \in Calls :
    FileDiffDone(c) /\ variant # "FileDiff" =>
      LET lines == Split(DiffOutput(c), "\n")
          n == Len(AddedOf(c))
          m == Len(DeletedOf(c))
      IN  /\ Json(c).rawDiff = SubSeq(lines, 1, Min(RawDiffCap, Len(lines)))
          /\ Json(c).hasChanges <=> (n > 0 \/ m > 0)
          /\ Json(c).additions = SubSeq(AddedOf(c), 1, Min(n, AdditionsCap))
          /\ Json(c).deletions = SubSeq(DeletedOf(c), 1, Min(m, AdditionsCap))
          /\ n + m > 0 => Json(c).summary = CountsSummary(variant, n, m)

\* a diff of more than 100 lines whose removed lines partly lie behind the 100th
C20_Witness ==
  \E c \in Calls :
    /\ FileDiffDone(c) /\ variant # "FileDiff"
    /\ Len(Split(DiffOutput(c), "\n")) > RawDiffCap
    /\ Len(Json(c).rawDiff) = RawDiffCap
    /\ Len(DeletedOf(c)) > Len(SelectSeq(Json(c).rawDiff, IsDeletion))
    /\ Json(c).summary = CountsSummary(variant, Len(AddedOf(c)), Len(DeletedOf(c)))

\* ---- C21: a path that is no directory
\* the call names a routed tool and its repoPath exists but is a regular file
OnNonDirectory(c) ==
  /\ Started(c)
  /\ calls[c].req.name \in ToolNames \cap Routes(variant)
  /\ calls[c].req.hasArgs
  /\ FsKind(RepoPathOf(c)) = "file"

\* C21: for a repoPath that exists but is not a directory, each tool call fails with
\* the 'repository not found' error that names the path, exactly as for a missing
\* path, and the call starts no subprocess.
C21_NonDirectoryRejected ==
  \A c \in Calls :
    OnNonDirectory(c) =>
      /\ calls[c].cmds = <<>>
      /\ Settled(c)
      /\ \E lit \in {"Repository not found: ", "Repozitorij ne najden: "} :
           calls[c].raised.message = <<lit>> \o Template(RepoPathOf(c))
      /\ Done(c) => ~calls[c].out.ok

\* quick_merge_summary on a regular file started subprocesses there and was answered
\* with a result instead of an error
C21_SubprocessOnFile ==
  \E c \in Calls :
    /\ OnNonDirectory(c) /\ Succeeded(c)
    /\ calls[c].req.name = "quick_merge_summary"
    /\ Len(calls[c].cmds) = 2
    /\ "error" \in DOMAIN Json(c)

\* ---- C22: statistics that do not parse
\* the text getMergeInfo's parsing code gets from a query: executeGit's return value
Returned(c, query) == Trim(OutputOf(c, query))

\* the token is no integer to parseInt: no digit after leading blanks and one sign
Unparsable(t) ==
  LET u == DropSpaces(t)
      w == IF u # <<>> /\ u[1] \in {"+", "-"} THEN Tail(u) ELSE u
  IN  w = <<>> \/ ~IsDigit(w[1])

\* what token k of a line adds to its total
Contribution(line, k) ==
  LET parts == Split(line, "\t")
  IN  IF Len(parts) < 2 \/ Unparsable(parts[k]) THEN 0 ELSE parseInt(parts[k]).v

RECURSIVE Total(_, _)
Total(lines, k) ==
  IF lines = <<>> THEN 0 ELSE Contribution(Head(lines), k) + Total(Tail(lines), k)

\* C22: in getMergeInfo a numstat token that does not parse as an integer adds 0 and
\* raises no error, the other token of the line and every other line add what they
\* add on their own, a line with fewer than two tab-separated fields adds nothing,
\* and a commit count that does not parse gives commits = 0.
C22_UnparsableTokensCountZero ==
  \A c \in Calls :
    /\ Settled(c) /\ calls[c].raised # None =>
         \E i \in 1..Len(calls[c].outs) : ~calls[c].outs[i].ok
    /\ MergeDone(c) =>
         LET lines == Split(Returned(c, "git diff --numstat "), "\n")
         IN  /\ Json(c).insertions = Num(Total(lines, 1))
             /\ Json(c).deletions = Num(Total(lines, 2))
             /\ Unparsable(Returned(c, "git rev-list --count ")) => Json(c).commits = Num(0)

\* a merge whose numstat has a line with "-" for insertions beside 4 deletions and a
\* line with 5 insertions beside "-", and whose commit count is a word
C22_Witness ==
  \E c \in Calls :
    /\ MergeDone(c)
    /\ OutputOf(c, "git diff --numstat ")
         = Lines(<< <<"-", "\t", "4", "\t", "f">>, <<"5", "\t", "-", "\t", "f">> >>)
    /\ Json(c).insertions = Num(5) /\ Json(c).deletions = Num(4)
    /\ OutputOf(c, "git rev-list --count ") = <<"fatal", "\n">>
    /\ Json(c).commits = Num(0)

\* ---- C23: no retries
\* the positions of the call's default-branch probes among its subprocesses
Probes(c) ==
  {i \in 1..Len(calls[c].cmds) : \E b \in {"main", "master"} : calls[c].cmds[i] = CmdShowRef(b)}

\* C23: within one tool call no git command is started twice, so a failed subprocess
\* is never started again; default-branch detection runs at most one probe, and when
\* the probe fails the handler goes on with the fallback name instead of failing.
C23_NoSubprocessRetried ==
  \A c \in Calls :
    /\ \A i, j \in 1..Len(calls[c].cmds) : i < j => calls[c].cmds[i] # calls[c].cmds[j]
    /\ Cardinality(Probes(c)) <= 1
    /\ \A i \in Probes(c) :
         i <= Len(calls[c].outs) /\ ~calls[c].outs[i].ok /\ Settled(c) =>
           \/ Len(calls[c].cmds) > i
           \/ calls[c].raised = None

\* a call whose probe failed and whose first count failed after it: two failures, two
\* different commands, and the call answered
C23_Witness ==
  \E c \in Calls :
    /\ Succeeded(c)
    /\ variant = "GitUtils" /\ FsKind(RepoPathOf(c)) = "repo"
    /\ Len(calls[c].cmds) = 2
    /\ Probes(c) = {1}
    /\ ~calls[c].outs[1].ok /\ ~calls[c].outs[2].ok
    /\ calls[c].req.args.branch = <<"main", "..", "main">>

\* ---- C24: detached HEAD
\* the call asked for the current branch and git answered with nothing
CurrentEmpty(c) ==
  \E i \in 1..Len(calls[c].outs) :
    /\ calls[c].cmds[i] = CmdCurrentBranch
    /\ calls[c].outs[i].ok
    /\ Trim(calls[c].outs[i].out) = <<>>

\* the branch the call compares from: given, fixed or detected
SourceOf(c) ==
  LET name == calls[c].req.name
      args == calls[c].req.args
  IN  CASE name = "show_merge_diff" ->
             IF Given(c, "fromBranch") THEN args.fromBranch ELSE <<"main">>
        [] name = "quick_merge_summary" -> DetectedDefault(variant, calls[c].before)
        [] OTHER -> IF Unnamed(c, "fromBranch") THEN DetectedDefault(variant, calls[c].before)
                    ELSE args.fromBranch

\* C24: when the current-branch query succeeds with empty output, the handler that
\* defaulted to it does not raise: it goes on to its next subprocess with the empty
\* name, and where the branch it compares from exists the call succeeds and reports
\* the branch as the empty string.
C24_DetachedHeadIsNoError ==
  \A c \in Calls :
    CurrentEmpty(c) /\ Settled(c) =>
      /\ calls[c].cmds[Len(calls[c].cmds)] # CmdCurrentBranch
      /\ Resolve(calls[c].before, SourceOf(c)) # NoCommit =>
           /\ calls[c].raised = None
           /\ Done(c) => /\ calls[c].out.ok
                         /\ Json(c)[TargetField(calls[c].req.name)] = <<>>

\* quick_merge_summary on a detached HEAD, answered with both counts and an empty
\* currentBranch
C24_Witness ==
  \E c \in Calls :
    /\ QuickDone(c) /\ CurrentEmpty(c)
    /\ Json(c).currentBranch = <<>>
    /\ "aheadBy" \in DOMAIN Json(c)
    /\ Json(c).aheadBy = Num(1)

\* ---- C25: quick_merge_summary does not fail on git
\* a quick_merge_summary call the build routes, handled to its end
QuickEnded(c) == Done(c) /\ calls[c].req.name = "quick_merge_summary" /\ Catalogued(c)

\* the call's current-branch query failed
CurrentFailed(c) ==
  \E i \in 1..Len(calls[c].outs) : calls[c].cmds[i] = CmdCurrentBranch /\ ~calls[c].outs[i].ok

\* the response is a result with one text content item
OneTextItem(c) ==
  /\ calls[c].out.ok
  /\ Len(calls[c].out.result.content) = 1
  /\ calls[c].out.result.content[1].type = "text"

\* C25 as claimed: quick_merge_summary with an existing repoPath and a non-empty
\* branch always returns a success response, and the call fails only when repoPath
\* does not exist or when branch is omitted and the current-branch query fails.
C25_QuickFailsOnlyOnPathOrOmittedBranch ==
  \A c \in Calls :
    QuickEnded(c) =>
      /\ calls[c].req.hasArgs /\ FsKind(RepoPathOf(c)) # "missing" /\ ~Unnamed(c, "branch")
           => OneTextItem(c)
      /\ ~calls[c].out.ok =>
           \/ calls[c].req.hasArgs /\ FsKind(RepoPathOf(c)) = "missing"
           \/ ~Given(c, "branch") /\ CurrentFailed(c)

\* C25 as amended: the same success, and the call fails only when the request has no
\* arguments object, when repoPath does not exist, or when branch is omitted or
\* empty and the current-branch query fails.
C25_QuickFailsOnlyBeforeItsStatistics ==
  \A c \in Calls :
    QuickEnded(c) =>
      /\ calls[c].req.hasArgs /\ FsKind(RepoPathOf(c)) # "missing" /\ ~Unnamed(c, "branch")
           => OneTextItem(c)
      /\ ~calls[c].out.ok =>
           \/ ~calls[c].req.hasArgs
           \/ FsKind(RepoPathOf(c)) = "missing"
           \/ Unnamed(c, "branch") /\ CurrentFailed(c)

\* quick_merge_summary with a branch on a directory that is no repository: every
\* subprocess failed and the call was answered with a result
C25_Witness ==
  \E c \in Calls :
    /\ QuickEnded(c) /\ OneTextItem(c)
    /\ FsKind(RepoPathOf(c)) = "dir"
    /\ ~Unnamed(c, "branch")
    /\ Len(calls[c].outs) = 2
    /\ \A i \in 1..2 : ~calls[c].outs[i].ok
    /\ "error" \in DOMAIN Json(c)

\* ---- C26: getMergeInfo is all or nothing
\* the three queries of getMergeInfo, by the lexeme each command starts with
MergeQueries == <<"git diff --name-only ", "git diff --numstat ", "git rev-list --count ">>

\* the commands the call started after its current-branch query, if it ran one
AfterCurrent(c) ==
  IF calls[c].cmds # <<>> /\ calls[c].cmds[1] = CmdCurrentBranch THEN Tail(calls[c].cmds)
  ELSE calls[c].cmds

\* C26: getMergeInfo starts its queries in the order changed-file list, numstat,
\* commit count; when one of them fails no later query is started, no MergeInfo is
\* returned, and show_merge_diff ends in a protocol error that carries the failure's
\* message; a MergeInfo is returned only after all three succeeded.
C26_MergeInfoAllOrNothing ==
  \A c \in Calls :
    Started(c) /\ calls[c].req.name = "show_merge_diff" =>
      /\ Len(AfterCurrent(c)) <= 3
      /\ \A k \in 1..Len(AfterCurrent(c)) : Head(AfterCurrent(c)[k]) = MergeQueries[k]
      /\ \A i \in 1..Len(calls[c].outs) :
           ~calls[c].outs[i].ok =>
             /\ Len(calls[c].cmds) = i
             /\ Settled(c) /\ calls[c].raised # None
             /\ Includes(calls[c].raised.message, calls[c].outs[i].msg)
             /\ Done(c) => /\ ~calls[c].out.ok
                           /\ calls[c].out.error.cls = "McpError"
                           /\ Includes(calls[c].out.error.message, calls[c].outs[i].msg)
      /\ Succeeded(c) =>
           /\ Len(AfterCurrent(c)) = 3
           /\ \A i \in 1..Len(calls[c].outs) : calls[c].outs[i].ok
           /\ DOMAIN Json(c) = {"sourceBranch", "targetBranch", "filesChanged", "insertions",
                                "deletions", "commits", "summary"}

\* the commit count failed after the file list and the numstat had succeeded, and
\* the call ended in a protocol error
C26_Witness ==
  \E c \in Calls :
    /\ Done(c) /\ calls[c].req.name = "show_merge_diff"
    /\ Len(calls[c].outs) = 3
    /\ calls[c].outs[1].ok /\ calls[c].outs[2].ok /\ ~calls[c].outs[3].ok
    /\ calls[c].outs[2].out # <<>>
    /\ ~calls[c].out.ok

\* ---- C27: the catalog and the dispatch agree
\* the call is an answered list-tools request
Listed(c) == calls[c].pc = "done" /\ calls[c].req = ListRequest

\* the call is a call-tool request whose handler has started
Called(c) == calls[c].pc \in {"exec", "await", "done"} /\ calls[c].req # ListRequest

\* the call-tool dispatch found no handler for the name
RejectedAsUnknown(c) ==
  /\ calls[c].raised # None
  /\ calls[c].raised.cls = "McpError"
  /\ calls[c].raised.code = "MethodNotFound"

\* C27: in every build the list-tools response is the same ordered list of pairwise
\* distinct names on every request, whatever was handled before, and a call-tool
\* request is rejected as unknown exactly when its name is not in that list.
C27_CatalogMatchesDispatch ==
  \A l \in Calls :
    Listed(l) =>
      LET tools == calls[l].out.result.tools
      IN  /\ calls[l].out.ok
          /\ \A i, j \in 1..Len(tools) : i # j => tools[i] # tools[j]
          /\ \A m \in Calls : Listed(m) => calls[m].out.result.tools = tools
          /\ \A c \in Calls :
               Called(c) => (RejectedAsUnknown(c) <=> calls[c].req.name \notin Range(tools))

\* the two-tool build rejected show_file_diff as unknown and then listed its two tools
C27_Witness ==
  \E c, l \in Calls :
    /\ c < l /\ Listed(l) /\ Called(c)
    /\ variant = "TwoTool"
    /\ calls[c].req.name = "show_file_diff" /\ RejectedAsUnknown(c)
    /\ calls[l].out.result.tools = <<"show_merge_diff", "quick_merge_summary">>

\* ---- C28: the two default-branch detectors
RECURSIVE RunFrom(_, _, _, _)
\* the outcome of a call of build v that has come to st with the repository at r
RunFrom(v, req, st, r) ==
  IF st.k = "exec"
  THEN LET res == execSync(st.cmd, Prop(req.args, "repoPath"), r)
       IN  RunFrom(v, req, Continue(v, req, st.at, st.loc, res), res.repo)
  ELSE Outcome(v, st)

\* what build v answers to the request on repository r
AnswerOf(v, req, r) ==
  IF req.name \notin Routes(v) THEN Outcome(v, Throw(UnknownTool(v, req.name)))
  ELSE RunFrom(v, req, Enter(v, req), r)

OtherDetector(v) == IF v = "GitUtils" THEN "Inline" ELSE "GitUtils"

\* exactly one of the refs main and master exists
ExactlyOneDefault(r) == ("main" \in DOMAIN r.tip) # ("master" \in DOMAIN r.tip)

\* a quick_merge_summary or show_file_diff call on the repository, handled to its end
\* by one of the two three-tool builds that differ in the detector
DetectorCall(c) ==
  /\ Done(c) /\ variant \in {"GitUtils", "Inline"}
  /\ calls[c].req.name \in {"quick_merge_summary", "show_file_diff"}
  /\ calls[c].req.hasArgs
  /\ FsKind(RepoPathOf(c)) = "repo"

\* the default branch a successful call reports
ReportedDefault(c) ==
  IF calls[c].req.name = "quick_merge_summary" THEN Json(c).baseBranch ELSE Json(c).fromBranch

\* C28: both detectors return main or master and never raise; on the same repository
\* they return the same name exactly when one and only one of the refs main and
\* master exists, so the build with GitUtils and the inline build answer
\* quick_merge_summary and show_file_diff alike on those repositories and, whenever
\* the detector is used, differently on the others.
C28_DetectorsAgreeIffOneDefault ==
  \A c \in Calls :
    DetectorCall(c) =>
      LET theirs == AnswerOf(OtherDetector(variant), calls[c].req, calls[c].before)
      IN  /\ AnswerOf(variant, calls[c].req, calls[c].before) = calls[c].out
          /\ Probes(c) # {} =>
               /\ \A i \in Probes(c) : ~calls[c].outs[i].ok => Len(calls[c].cmds) > i
                                                                \/ calls[c].raised = None
               /\ calls[c].out.ok =>
                    /\ ReportedDefault(c) \in {<<"main">>, <<"master">>}
                    /\ theirs.ok =>
                         (ReportedDefault(c)
                            = (IF calls[c].req.name = "quick_merge_summary"
                               THEN theirs.result.content[1].text.json.baseBranch
                               ELSE theirs.result.content[1].text.json.fromBranch)
                          <=> ExactlyOneDefault(calls[c].before))
               /\ theirs = calls[c].out <=> ExactlyOneDefault(calls[c].before)
          /\ ExactlyOneDefault(calls[c].before) \/ Probes(c) = {} => theirs = calls[c].out

\* the build with GitUtils answered quick_merge_summary with base master on a
\* repository that has both main and master, where the inline build answers main
C28_Witness ==
  \E c \in Calls :
    /\ DetectorCall(c) /\ variant = "GitUtils" /\ QuickDone(c)
    /\ {"main", "master"} \subseteq DOMAIN calls[c].before.tip
    /\ Json(c).baseBranch = <<"master">>
    /\ AnswerOf("Inline", calls[c].req, calls[c].before).result.content[1].text.json.baseBranch
         = <<"main">>

\* ---- C29: every call ends in one outcome
\* the outcome is a result with one text content item and no error, or an error and
\* no result
OneOutcome(c) ==
  IF calls[c].out.ok
  THEN /\ DOMAIN calls[c].out = {"ok", "result"}
       /\ Len(calls[c].out.result.content) = 1
       /\ calls[c].out.result.content[1].type = "text"
  ELSE /\ DOMAIN calls[c].out = {"ok", "error"}
       /\ calls[c].out.error.message # <<>>

\* the request has reached the server and is not answered yet
Pending(c) == calls[c].pc \notin {"new", "done"}

\* the server can take the next step of the call: its handler may start, its
\* subprocess return, or its continuation resume
Due(c) ==
  CASE calls[c].pc = "queued" ->
         (\A d \in Calls : d < c => calls[d].pc \notin {"new", "queued"}) /\ ~ThreadBusy
    [] calls[c].pc = "listing" -> ~ThreadBusy
    [] calls[c].pc = "exec" -> TRUE
    [] calls[c].pc = "await" -> (\A d \in Calls : d < c => Done(d)) /\ ~ThreadBusy
    [] OTHER -> FALSE

\* how far the call has come: its stage and the subprocesses it has started
Progress(c) ==
  Len(calls[c].cmds)
  + (CASE calls[c].pc = "new" -> 0
       [] calls[c].pc \in {"queued", "listing"} -> 1
       [] calls[c].pc = "exec" -> 2
       [] calls[c].pc = "await" -> 3
       [] calls[c].pc = "done" -> 4
       [] OTHER -> 0)

\* C29: provided every subprocess that is started returns, every call-tool request
\* ends in exactly one outcome, a result with one text content item or an error,
\* never both and never neither.  In the form of finite runs: while a request is
\* unanswered the server has a step to take; every step moves some request forward
\* and none backward, and a request can move forward only a bounded number of
\* times, so under SpecLive every request is answered; the answer has one of the
\* two shapes, is given when the request is done, and never changes.
C29_EveryCallEndsInOneOutcome ==
  /\ []((\E c \in Calls : Pending(c)) => \E c \in Calls : Due(c))
  /\ [](\A c \in Calls : Progress(c) <= 8)
  /\ [][/\ \A c \in Calls : Progress(c)' >= Progress(c)
        /\ \E c \in Calls : Progress(c)' > Progress(c)]_vars
  /\ [](\A c \in Calls :
          /\ Done(c) <=> calls[c].out # None
          /\ Done(c) /\ calls[c].req # ListRequest => OneOutcome(c))
  /\ [][\A c \in Calls : calls[c].out # None => calls'[c].out = calls[c].out]_vars

\* two calls answered, one with a result after four subprocesses and one with an
\* error after a subprocess failed
C29_Witness ==
  \E c, d \in Calls :
    /\ Done(c) /\ Done(d)
    /\ calls[c].req # ListRequest /\ calls[d].req # ListRequest
    /\ calls[c].out.ok /\ Len(calls[c].cmds) = 4
    /\ ~calls[d].out.ok /\ calls[d].cmds # <<>>

\* ---- C30: the body lines of a unified diff
\* the lines of the diff's hunk: those after the line of the hunk header
HunkBody(c) ==
  LET ls == Split(DiffOutput(c), "\n")
      at == {i \in 1..Len(ls) : ls[i] # <<>> /\ ls[i][1] = "@@ @@"}
  IN  IF at = {} THEN <<>>
      ELSE SubSeq(ls, (CHOOSE i \in at : \A k \in at : i <= k) + 1, Len(ls))

\* the body lines behind the marker
BodyLines(c, marker) == SelectSeq(HunkBody(c), LAMBDA l : l # <<>> /\ l[1] = marker)

\* C30: for a unified diff, every body line of the hunk that starts with the marker
\* '+' is counted as an addition and every body line that starts with '-' as a
\* deletion, whatever follows the marker; only the file headers '+++ b/...' and
\* '--- a/...', which stand before the hunk, are left out, so the counts of the
\* response are the numbers of added and removed lines of the diff.
C30_BodyLinesCounted ==
  \A c \in Calls :
    Parsed(c) /\ HunkBody(c) # <<>> =>
      /\ Json(c).summary = CountsSummary(variant, Len(BodyLines(c, "+")), Len(BodyLines(c, "-")))
      /\ variant = "FileDiff" =>
           /\ Json(c).totalAdded = Num(Len(BodyLines(c, "+")))
           /\ Json(c).totalRemoved = Num(Len(BodyLines(c, "-")))

\* the diff adds the line '++i', printed as '+++i', and the response does not list it
C30_AddedLineNotCounted ==
  \E c \in Calls :
    /\ Parsed(c)
    /\ \E i \in 1..Len(HunkBody(c)) : HunkBody(c)[i] = <<"+", "+", "+", "i">>
    /\ Len(ListedAdditions(c)) < Len(BodyLines(c, "+"))
    /\ \A i \in 1..Len(ListedAdditions(c)) : ListedAdditions(c)[i] # <<"+", "+", "i">>

====
